---- MODULE Spec2Model ----
(***************************************************************************)
(* A model of gdal/ogr/ogrsf_frmts/sqlite/rasterlite2.cpp: the RasterLite2 *)
(* raster support of the OGR SQLite data source.                           *)
(*                                                                         *)
(*   - OpenRasterSubDataset / CreateRL2OverviewDatasetIfNeeded (open path) *)
(*   - RL2RasterBand::IReadBlock (block reader)                            *)
(*   - OGRSQLiteDriverCreateCopy (ingestion)                               *)
(*                                                                         *)
(* Numbers.  World coordinates and resolutions are integers counted in     *)
(* 1/ResUnit of a ground unit, so that the relative tolerance 1e-5 of the  *)
(* overview test separates values the model can enumerate.  Quotients the  *)
(* code keeps as doubles (the pixel size of a geotransform) are exact      *)
(* rationals [n, d]; d = 0 stands for an infinite quotient (x / 0.0).      *)
(* Floating-point rounding is not modelled.  A 32-bit unsigned value is    *)
(* the pair [hi, lo] standing for hi * 2^31 + lo.                          *)
(***************************************************************************)
EXTENDS Integers, Sequences, FiniteSets, TLC

\* limits.h INT_MAX, the bound OpenRasterSubDataset tests sizes against.
INT_MAX == 2147483647

\* 1e-5, the relative tolerance of CreateRL2OverviewDatasetIfNeeded, as 1/RelTolDen.
RelTolDen == 100000

\* The size under which an overview is hidden unless RL2_SHOW_ALL_PYRAMID_LEVELS.
MinOvrSize == 64

\* Number of model units in one ground unit.
ResUnit == 1000000

----------------------------------------------------------------------------
(* Optional values (a C pointer that may be NULL, a NULL column of a row). *)

Null == <<>>

Some(v) == <<v>>

IsNull(o) == o = <<>>

Val(o) == o[1]

Abs(i) == IF i < 0 THEN -i ELSE i

Min(a, b) == IF a < b THEN a ELSE b

RECURSIVE Gcd(_, _)
Gcd(a, b) == IF b = 0 THEN a ELSE Gcd(b, a % b)

\* The quotient n / d of two integers, d >= 0, as a double: reduced, d = 0 when
\* the division is by zero (n > 0: +inf, n < 0: -inf).
Quot(n, d) ==
    IF d = 0 THEN [n |-> n, d |-> 0]
    ELSE LET g == Gcd(Abs(n), d) IN [n |-> n \div g, d |-> d \div g]

IsFinite(q) == q.d # 0

\* unsigned int values
U32(hi, lo) == [hi |-> hi, lo |-> lo]

\* static_cast<int>(0.5 + s / r) for r > 0: the cast truncates towards zero.
\* For s >= 0 the quotient and remainder form keeps 2 * s out of the computation.
CastHalfPlus(s, r) ==
    IF s >= 0
    THEN (s \div r) + (IF 2 * (s % r) >= r THEN 1 ELSE 0)
    ELSE LET num == 2 * s + r
         IN IF num >= 0 THEN num \div (2 * r) ELSE -((-num) \div (2 * r))

\* 0.5 + s / r <= 0.5, r > 0
HalfPlusLeHalf(s, r) == s <= 0

\* 0.5 + s / r > INT_MAX, r > 0, s <= INT_MAX
HalfPlusGtIntMax(s, r) ==
    s >= 0 /\ ( (s \div r) >= INT_MAX
                \/ ((s \div r) = INT_MAX - 1 /\ 2 * (s % r) > r) )

----------------------------------------------------------------------------
(* Pixel Format Translator                                                 *)

\* The switch on nSampleType of OpenRasterSubDataset: bit depth, data type,
\* signedness; ok = FALSE is "Unknown sample type".
SampleTypeInfo(nSampleType) ==
    CASE nSampleType = "RL2_SAMPLE_1_BIT"  -> [ok |-> TRUE, nBits |-> 1,  eDT |-> "GDT_Byte",    bSigned |-> FALSE]
      [] nSampleType = "RL2_SAMPLE_2_BIT"  -> [ok |-> TRUE, nBits |-> 2,  eDT |-> "GDT_Byte",    bSigned |-> FALSE]
      [] nSampleType = "RL2_SAMPLE_4_BIT"  -> [ok |-> TRUE, nBits |-> 4,  eDT |-> "GDT_Byte",    bSigned |-> FALSE]
      [] nSampleType = "RL2_SAMPLE_INT8"   -> [ok |-> TRUE, nBits |-> 8,  eDT |-> "GDT_Byte",    bSigned |-> TRUE]
      [] nSampleType = "RL2_SAMPLE_UINT8"  -> [ok |-> TRUE, nBits |-> 8,  eDT |-> "GDT_Byte",    bSigned |-> FALSE]
      [] nSampleType = "RL2_SAMPLE_INT16"  -> [ok |-> TRUE, nBits |-> 16, eDT |-> "GDT_Int16",   bSigned |-> TRUE]
      [] nSampleType = "RL2_SAMPLE_UINT16" -> [ok |-> TRUE, nBits |-> 16, eDT |-> "GDT_UInt16",  bSigned |-> FALSE]
      [] nSampleType = "RL2_SAMPLE_INT32"  -> [ok |-> TRUE, nBits |-> 32, eDT |-> "GDT_Int32",   bSigned |-> TRUE]
      [] nSampleType = "RL2_SAMPLE_UINT32" -> [ok |-> TRUE, nBits |-> 32, eDT |-> "GDT_UInt32",  bSigned |-> FALSE]
      [] nSampleType = "RL2_SAMPLE_FLOAT"  -> [ok |-> TRUE, nBits |-> 32, eDT |-> "GDT_Float32", bSigned |-> TRUE]
      [] nSampleType = "RL2_SAMPLE_DOUBLE" -> [ok |-> TRUE, nBits |-> 64, eDT |-> "GDT_Float64", bSigned |-> TRUE]
      [] OTHER -> [ok |-> FALSE, nBits |-> 0, eDT |-> "GDT_Unknown", bSigned |-> FALSE]

\* The switch on nCompression: the COMPRESSION metadata item, Null when the
\* code is not recognised.
CompressionName(nCompression) ==
    CASE nCompression \in {"RL2_COMPRESSION_DEFLATE", "RL2_COMPRESSION_DEFLATE_NO"} -> Some("DEFLATE")
      [] nCompression \in {"RL2_COMPRESSION_LZMA", "RL2_COMPRESSION_LZMA_NO"} -> Some("LZMA")
      [] nCompression = "RL2_COMPRESSION_GIF" -> Some("GIF")
      [] nCompression = "RL2_COMPRESSION_JPEG" -> Some("JPEG")
      [] nCompression = "RL2_COMPRESSION_PNG" -> Some("PNG")
      [] nCompression = "RL2_COMPRESSION_LOSSY_WEBP" -> Some("WEBP")
      [] nCompression = "RL2_COMPRESSION_LOSSLESS_WEBP" -> Some("WEBP_LOSSLESS")
      [] nCompression = "RL2_COMPRESSION_CCITTFAX3" -> Some("CCITTFAX3")
      [] nCompression = "RL2_COMPRESSION_CCITTFAX4" -> Some("CCITTFAX4")
      [] nCompression = "RL2_COMPRESSION_LZW" -> Some("LZW")
      [] nCompression = "RL2_COMPRESSION_CHARLS" -> Some("JPEG_LOSSLESS")
      [] nCompression = "RL2_COMPRESSION_LOSSY_JP2" -> Some("JPEG2000")
      [] nCompression = "RL2_COMPRESSION_LOSSLESS_JP2" -> Some("JPEG2000_LOSSLESS")
      [] OTHER -> Null

\* The QUALITY metadata item: only for the lossy codecs and a nonzero quality.
QualityItem(nCompression, nQuality) ==
    IF nQuality # 0 /\ nCompression \in {"RL2_COMPRESSION_JPEG",
                                         "RL2_COMPRESSION_LOSSY_WEBP",
                                         "RL2_COMPRESSION_LOSSY_JP2"}
    THEN Some(nQuality) ELSE Null

\* GDALGetDataTypeSizeBytes
GDALGetDataTypeSizeBytes(eDT) ==
    CASE eDT = "GDT_Byte" -> 1
      [] eDT \in {"GDT_Int16", "GDT_UInt16"} -> 2
      [] eDT \in {"GDT_Int32", "GDT_UInt32", "GDT_Float32"} -> 4
      [] eDT = "GDT_Float64" -> 8
      [] OTHER -> 0

\* The colour interpretation the band constructor derives from the pixel type.
ColorInterpOf(nPixelType, nBandIn) ==
    CASE nPixelType \in {"RL2_PIXEL_MONOCHROME", "RL2_PIXEL_GRAYSCALE"} -> "GCI_GrayIndex"
      [] nPixelType = "RL2_PIXEL_PALETTE" -> "GCI_PaletteIndex"
      [] nPixelType = "RL2_PIXEL_RGB" ->
            ( CASE nBandIn = 1 -> "GCI_RedBand"
                [] nBandIn = 2 -> "GCI_GreenBand"
                [] nBandIn = 3 -> "GCI_BlueBand"
                [] OTHER -> "GCI_Other" )
      [] OTHER -> "GCI_Undefined"

\* RL2RasterBand::RL2RasterBand(nBandIn, nPixelType, eDT, nBits, ...)
RL2RasterBand(nBandIn, nPixelType, eDT, nBits, bPromote1BitAs8Bit, bSigned, nBlockXSizeIn, nBlockYSizeIn, bHasNoDataIn, dfNoDataValueIn) ==
    [ eDataType       |-> eDT,
      nBlockXSize     |-> nBlockXSizeIn,
      nBlockYSize     |-> nBlockYSizeIn,
      NBITS           |-> IF (nBits % 8) # 0 /\ ~(nBits = 1 /\ bPromote1BitAs8Bit)
                          THEN Some(nBits) ELSE Null,
      SOURCE_NBITS    |-> IF (nBits % 8) # 0 /\ (nBits = 1 /\ bPromote1BitAs8Bit)
                          THEN Some(nBits) ELSE Null,
      PIXELTYPE       |-> IF nBits = 8 /\ bSigned THEN Some("SIGNEDBYTE") ELSE Null,
      m_eColorInterp  |-> ColorInterpOf(nPixelType, nBandIn),
      m_bHasNoData    |-> bHasNoDataIn,
      m_dfNoDataValue |-> dfNoDataValueIn,
      m_poCT          |-> Null,
      STATISTICS      |-> FALSE ]

\* RL2RasterBand::RL2RasterBand(const RL2RasterBand* poOther): the band of an
\* overview dataset.
RL2RasterBandCopy(poOther) ==
    [ eDataType       |-> poOther.eDataType,
      nBlockXSize     |-> poOther.nBlockXSize,
      nBlockYSize     |-> poOther.nBlockYSize,
      NBITS           |-> poOther.NBITS,
      SOURCE_NBITS    |-> Null,
      PIXELTYPE       |-> poOther.PIXELTYPE,
      m_eColorInterp  |-> poOther.m_eColorInterp,
      m_bHasNoData    |-> poOther.m_bHasNoData,
      m_dfNoDataValue |-> poOther.m_dfNoDataValue,
      m_poCT          |-> Null,
      STATISTICS      |-> FALSE ]

----------------------------------------------------------------------------
(* The data source object                                                  *)

\* A default-constructed OGRSQLiteDataSource, before any open.
NewDataSource ==
    [ bIsInternal            |-> FALSE,
      m_poParentDS           |-> "NULL",
      m_osCoverageName       |-> "",
      m_nSectionId           |-> -1,
      m_pRL2Coverage         |-> "NULL",
      m_bPromote1BitAs8Bit   |-> FALSE,
      m_bRL2MixedResolutions |-> FALSE,
      m_bGeoTransformValid   |-> FALSE,
      m_adfGeoTransform      |-> [gt0 |-> 0, gt1 |-> Quot(1, 1), gt3 |-> 0, gt5 |-> Quot(1, 1)],
      nRasterXSize           |-> 0,
      nRasterYSize           |-> 0,
      m_osProjection         |-> "",
      metadata               |-> [COMPRESSION |-> Null, QUALITY |-> Null,
                                  NODATA_VALUES |-> Null, COVERAGE_TITLE |-> Null,
                                  COVERAGE_ABSTRACT |-> Null, SECTION_SUMMARY |-> Null],
      bands                  |-> <<>>,
      m_apoOverviewDS        |-> <<>>,
      m_aosSubDatasets       |-> <<>> ]

\* CPLStringList::AddNameValue on m_aosSubDatasets
AddNameValue(list, key, value) == Append(list, [key |-> key, value |-> value])

----------------------------------------------------------------------------
(* Overview Chain Builder                                                  *)

\* fabs( dfXRes - g ) < 1e-5 * g, g the pixel width [n, d] of a dataset.  An
\* infinite g makes both sides infinite and the comparison false.
ResClose(dfXRes, g) ==
    /\ IsFinite(g)
    /\ g.n > 0
    /\ Abs(dfXRes * g.d - g.n) <= (g.n - 1) \div RelTolDen

\* A comparison against the most recently retained overview only.
MatchesLastRetained(d, dfXRes) ==
    /\ Len(d.m_apoOverviewDS) > 0
    /\ ResClose(dfXRes, d.m_apoOverviewDS[Len(d.m_apoOverviewDS)].m_adfGeoTransform.gt1)

\* The loop over m_apoOverviewDS: dfXRes matches a retained overview.
MatchesRetained(d, dfXRes) ==
    \E i \in 1..Len(d.m_apoOverviewDS) :
        ResClose(dfXRes, d.m_apoOverviewDS[i].m_adfGeoTransform.gt1)

\* q * size for a pixel size q = [n, d] with d dividing size; Null when the
\* product is inf * 0, a NaN.
PixelsSpan(q, size) ==
    IF IsFinite(q) THEN Some(q.n * (size \div q.d)) ELSE Null

\* static_cast<int>(0.5 + span / res); the cast of a NaN is undefined
\* behaviour and yields ubCast.
OvrSize(span, res, ubCast) ==
    IF IsNull(span) THEN ubCast ELSE CastHalfPlus(Val(span), res)

\* The test that discards the overview dataset just sized.
OvrDiscarded(nXSize, nYSize, bShowAll) ==
    \/ nXSize <= 1
    \/ nXSize <= 1
    \/ (nXSize < MinOvrSize /\ nYSize < MinOvrSize /\ ~bShowAll)

\* The dataset d after CreateRL2OverviewDatasetIfNeeded(dfXRes, dfYRes).
\* bShowAll is the RL2_SHOW_ALL_PYRAMID_LEVELS configuration option, ub the
\* pair of values the two casts of a NaN produce.
CreateRL2OverviewDatasetIfNeeded(d, dfXRes, dfYRes, bShowAll, ub) ==
    IF ResClose(dfXRes, d.m_adfGeoTransform.gt1) THEN d
    ELSE IF MatchesRetained(d, dfXRes) THEN d
    ELSE
      LET gt     == d.m_adfGeoTransform
          spanX  == PixelsSpan(gt.gt1, d.nRasterXSize)
          spanY  == PixelsSpan([n |-> -gt.gt5.n, d |-> gt.gt5.d], d.nRasterYSize)
          nXSize == OvrSize(spanX, dfXRes, ub.w)
          nYSize == OvrSize(spanY, dfYRes, ub.h)
          poOvrDS == [ NewDataSource EXCEPT
                         !.bIsInternal = TRUE,
                         !.m_poParentDS = "this",
                         !.m_osCoverageName = d.m_osCoverageName,
                         !.m_nSectionId = d.m_nSectionId,
                         !.m_bPromote1BitAs8Bit = d.m_bPromote1BitAs8Bit,
                         !.m_bRL2MixedResolutions = d.m_bRL2MixedResolutions,
                         !.m_adfGeoTransform = [gt0 |-> gt.gt0,
                                                gt1 |-> Quot(dfXRes, 1),
                                                gt3 |-> gt.gt3,
                                                gt5 |-> Quot(-dfYRes, 1)],
                         !.nRasterXSize = nXSize,
                         !.nRasterYSize = nYSize,
                         !.bands = [iBand \in 1..Len(d.bands) |->
                                        RL2RasterBandCopy(d.bands[iBand])] ]
      IN IF OvrDiscarded(nXSize, nYSize, bShowAll) THEN d
         ELSE [d EXCEPT !.m_apoOverviewDS = Append(@, poOvrDS)]

----------------------------------------------------------------------------
(* Coverage Resolver                                                       *)

\* m_pszFilename of the data source
FileName == "f.sqlite"

\* rl2_create_coverage_from_dbms( hDB, name ): the handle, "NULL" on failure.
\* st.coverages are the coverages of the store that load.
CoverageFromDbms(st, name) == IF name \in st.coverages THEN name ELSE "NULL"

\* The sub-dataset pair of one section: SUBDATASET_<n>_NAME and
\* SUBDATASET_<n>_DESC, n counted from the pairs already listed.
AddSubDataset(acc, row) ==
    LET nIdx == Len(acc.ds.m_aosSubDatasets) \div 2 + 1
        withName == AddNameValue(acc.ds.m_aosSubDatasets,
                        <<"SUBDATASET", nIdx, "NAME">>,
                        [scheme |-> "RASTERLITE2", file |-> FileName,
                         coverage |-> acc.ds.m_osCoverageName,
                         section_id |-> Val(row.section_id),
                         section_name |-> Val(row.section_name)])
        withDesc == AddNameValue(withName,
                        <<"SUBDATASET", nIdx, "DESC">>,
                        [coverage |-> acc.ds.m_osCoverageName,
                         section_name |-> Val(row.section_name),
                         section_id |-> Val(row.section_id)])
    IN [acc EXCEPT !.ds.m_aosSubDatasets = withDesc]

\* The only section of the coverage becomes the active section.
SelectSection(acc, row) ==
    [acc EXCEPT !.ds.m_nSectionId = Val(row.section_id),
                !.bSingleSection = TRUE]

\* A row handler that lists the section whatever the number of rows.
SectionRowAlwaysLists(acc, row, nRowCount2) ==
    IF ~IsNull(row.section_name) /\ ~IsNull(row.section_id)
    THEN AddSubDataset(acc, row)
    ELSE acc

\* One row of "SELECT section_id, section_name FROM <coverage>_sections":
\* a sub-dataset pair when the table has several rows, the active section
\* when it has one.  acc = [ds, bSingleSection].
SectionRow(acc, row, nRowCount2) ==
    IF ~IsNull(row.section_name) /\ ~IsNull(row.section_id)
    THEN IF nRowCount2 > 1
         THEN AddSubDataset(acc, row)
         ELSE SelectSection(acc, row)
    ELSE acc

RECURSIVE SectionRows(_, _, _)
SectionRows(acc, rows, j) ==
    IF j > Len(rows) THEN acc
    ELSE SectionRows(SectionRow(acc, rows[j], Len(rows)), rows, j + 1)

\* The block "if( m_nSectionId < 0 )" that lists or selects the sections.
ListSections(d, st) ==
    IF d.m_nSectionId < 0 /\ st.sectionsRc = "SQLITE_OK"
    THEN SectionRows([ds |-> d, bSingleSection |-> FALSE], st.sections, 1)
    ELSE [ds |-> d, bSingleSection |-> FALSE]

\* What rl2_resolve_base_resolution_from_dbms and
\* rl2_resolve_full_section_from_dbms answer for a section id.
SectionGeometry(st, nSectionId) ==
    IF nSectionId \in DOMAIN st.sectionGeometry
    THEN st.sectionGeometry[nSectionId]
    ELSE [baseRet |-> "RL2_ERROR"]

\* The registry extent "SELECT extent_minx, ... FROM raster_coverages": the
\* four doubles stay 0.0 unless the query gives one row with no NULL.
RegistryExtent(st) ==
    IF /\ st.extentRc = "SQLITE_OK"
       /\ Len(st.extentRows) = 1
       /\ \A k \in 1..4 : ~IsNull(st.extentRows[1][k])
    THEN [dfMinX |-> Val(st.extentRows[1][1]), dfMinY |-> Val(st.extentRows[1][2]),
          dfMaxX |-> Val(st.extentRows[1][3]), dfMaxY |-> Val(st.extentRows[1][4])]
    ELSE [dfMinX |-> 0, dfMinY |-> 0, dfMaxX |-> 0, dfMaxY |-> 0]

\* Extent and size of the active section: ok = FALSE is a return false.
SectionExtent(d, st) ==
    LET sg == SectionGeometry(st, d.m_nSectionId)
    IN IF sg.baseRet # "RL2_OK" THEN [ok |-> FALSE]
       ELSE IF \/ sg.fullRet # "RL2_OK"
               \/ (sg.nWidth.hi = 0 /\ sg.nWidth.lo = 0)
               \/ sg.nWidth.hi > 0
               \/ (sg.nHeight.hi = 0 /\ sg.nHeight.lo = 0)
               \/ sg.nHeight.hi > 0
            THEN [ok |-> FALSE]
            ELSE [ok |-> TRUE, path |-> "section",
                  dfMinX |-> sg.dfMinX, dfMinY |-> sg.dfMinY,
                  dfMaxX |-> sg.dfMaxX, dfMaxY |-> sg.dfMaxY,
                  nWidth |-> sg.nWidth.lo, nHeight |-> sg.nHeight.lo]

\* Extent and size of the whole coverage, from the coverage's resolution and
\* the registry extent.
CoverageExtent(d, st) ==
    LET e  == RegistryExtent(st)
        sX == e.dfMaxX - e.dfMinX
        sY == e.dfMaxY - e.dfMinY
    IN IF \/ HalfPlusLeHalf(sX, st.dfXRes)
          \/ HalfPlusLeHalf(sY, st.dfYRes)
          \/ HalfPlusGtIntMax(sX, st.dfXRes)
          \/ HalfPlusGtIntMax(sY, st.dfYRes)
       THEN [ok |-> FALSE]
       ELSE [ok |-> TRUE, path |-> "coverage",
             dfMinX |-> e.dfMinX, dfMinY |-> e.dfMinY,
             dfMaxX |-> e.dfMaxX, dfMaxY |-> e.dfMaxY,
             nWidth |-> CastHalfPlus(sX, st.dfXRes),
             nHeight |-> CastHalfPlus(sY, st.dfYRes)]

\* A resolver that gives up when no section is active.
ResolveSectionExtentOnly(d, st) ==
    IF d.m_nSectionId >= 0 THEN SectionExtent(d, st) ELSE [ok |-> FALSE]

\* "Get extent and resolution": ok = FALSE is a return false.
ResolveExtent(d, st) ==
    IF d.m_nSectionId >= 0 THEN SectionExtent(d, st) ELSE CoverageExtent(d, st)

\* "Compute dimension and geotransform"
SetGeometry(d, g) ==
    [d EXCEPT !.nRasterXSize = g.nWidth,
              !.nRasterYSize = g.nHeight,
              !.m_bGeoTransformValid = TRUE,
              !.m_adfGeoTransform =
                  [gt0 |-> g.dfMinX,
                   gt1 |-> Quot(g.dfMaxX - g.dfMinX, g.nWidth),
                   gt3 |-> g.dfMaxY,
                   gt5 |-> Quot(-(g.dfMaxY - g.dfMinY), g.nHeight)]]

\* No-data values collected without comparing the pixel with the coverage.
NoDataValuesUncompared(st) ==
    IF IsNull(st.noData) THEN <<>>
    ELSE [i \in 1..st.nBands |->
            IF i \in DOMAIN Val(st.noData).samples THEN Val(st.noData).samples[i]
            ELSE Val(st.noData).samples[1]]

\* The no-data values OpenRasterSubDataset collects (adfNoDataValues): empty
\* unless the coverage has a no-data pixel of the coverage's own sample type,
\* pixel type and band count.  Only the uint8 and uint16 accessors take the
\* band index; the others read the pixel's single sample.
NoDataValues(st) ==
    IF IsNull(st.noData) THEN <<>>
    ELSE LET p == Val(st.noData)
         IN IF /\ p.ret = "RL2_OK"
               /\ p.nSampleType = st.nSampleType
               /\ p.nPixelType = st.nPixelType
               /\ p.nBands = st.nBands
            THEN [i \in 1..st.nBands |->
                    IF SampleTypeInfo(st.nSampleType).ok
                    THEN IF st.nSampleType \in {"RL2_SAMPLE_UINT8", "RL2_SAMPLE_UINT16"}
                         THEN p.samples[i] ELSE p.samples[1]
                    ELSE 0]
            ELSE <<>>

\* RL2RasterBand::GetNoDataValue( pbSuccess ): the value of the band when it
\* has one, what GDALPamRasterBand::GetNoDataValue answers otherwise.
GetNoDataValue(band, pam) ==
    IF band.m_bHasNoData THEN [bSuccess |-> TRUE, dfNoData |-> band.m_dfNoDataValue]
    ELSE pam

\* RL2RasterBand::GetOverviewCount(): pam is what the generic mechanism of
\* GDALPamRasterBand answers.
GetOverviewCount(poGDS, pam) ==
    LET nRet == Len(poGDS.m_apoOverviewDS)
    IN IF nRet > 0 THEN nRet ELSE pam.nOverviews

\* GDALPamRasterBand::GetOverview( nIdx ): the nIdx-th overview the generic
\* mechanism has, or NULL.
PamGetOverview(pam, nIdx) ==
    IF nIdx >= 0 /\ nIdx < pam.nOverviews THEN Some([from |-> "pam", nIdx |-> nIdx, nBand |-> 0])
    ELSE Null

\* A lookup that asks the generic mechanism for the indexes the list has not.
GetOverviewFallingBack(poGDS, nBand, nIdx, pam) ==
    IF nIdx >= 0 /\ nIdx < Len(poGDS.m_apoOverviewDS)
    THEN Some([from |-> "m_apoOverviewDS", nIdx |-> nIdx, nBand |-> nBand])
    ELSE PamGetOverview(pam, nIdx)

\* RL2RasterBand::GetOverview( nIdx ) of band nBand: Null for NULL, the band
\* nBand of the overview dataset nIdx of the list, or what the generic
\* mechanism answers.
GetOverview(poGDS, nBand, nIdx, pam) ==
    LET nOvr == Len(poGDS.m_apoOverviewDS)
    IN IF nOvr > 0
       THEN IF nIdx < 0 \/ nIdx >= nOvr THEN Null
            ELSE Some([from |-> "m_apoOverviewDS", nIdx |-> nIdx, nBand |-> nBand])
       ELSE PamGetOverview(pam, nIdx)

\* The loop that creates the bands of the opened dataset.
CreateBands(d, st, info, adfNoDataValues, nBlockXSize, nBlockYSize) ==
    [d EXCEPT !.bands =
        [iBand \in 1..st.nBands |->
            LET bHasNoData == Len(adfNoDataValues) = 1 /\ st.nBands = 1
                dfNoDataValue == IF bHasNoData THEN adfNoDataValues[1] ELSE 0
            IN RL2RasterBand(iBand, st.nPixelType, info.eDT, info.nBits,
                             d.m_bPromote1BitAs8Bit, info.bSigned,
                             nBlockXSize, nBlockYSize, bHasNoData, dfNoDataValue)]]

\* A "Fetch statistics" that does not look at the section.
FetchStatisticsAnySection(d, st, info, bSingleSection) ==
    IF st.statistics # "NULL"
    THEN [d EXCEPT !.bands =
            [iBand \in 1..Len(d.bands) |->
                IF ~(info.nBits = 1 /\ d.m_bPromote1BitAs8Bit) /\ st.statistics = "RL2_OK"
                THEN [d.bands[iBand] EXCEPT !.STATISTICS = TRUE]
                ELSE d.bands[iBand]]]
    ELSE d

\* "Fetch statistics": the STATISTICS_* items of each band.
FetchStatistics(d, st, info, bSingleSection) ==
    IF (d.m_nSectionId < 0 \/ bSingleSection) /\ st.statistics # "NULL"
    THEN [d EXCEPT !.bands =
            [iBand \in 1..Len(d.bands) |->
                IF ~(info.nBits = 1 /\ d.m_bPromote1BitAs8Bit) /\ st.statistics = "RL2_OK"
                THEN [d.bands[iBand] EXCEPT !.STATISTICS = TRUE]
                ELSE d.bands[iBand]]]
    ELSE d

\* A title or abstract column that is set: not NULL, not empty, not the
\* "*** missing ... ***" placeholder.
TextItem(col) ==
    IF ~IsNull(col) /\ Val(col) # "" /\ Val(col) \notin {"*** missing Title ***", "*** missing Abstract ***"}
    THEN col ELSE Null

\* Section ids are GIntBig values, counted here in units of 2^16 so that ids
\* beyond the range of int stay within the checker's integers: the id n of the
\* model is the id n * 2^16 of the store.
\* static_cast<int>(m_nSectionId) of a non-negative id keeps the low 32 bits as
\* a two's complement value: in units of 2^16, n reduced into -2^15 .. 2^15 - 1.
SectionIdAsInt(nSectionId) == ((nSectionId + 32768) % 65536) - 32768

\* "Fetch other metadata" and the section summary, whose query takes the
\* section id through static_cast<int>.
FetchOtherMetadata(d, st) ==
    LET withTitle ==
            IF st.titleRc = "SQLITE_OK" /\ Len(st.titleRows) = 1
            THEN [d EXCEPT !.metadata.COVERAGE_TITLE = TextItem(st.titleRows[1].title),
                           !.metadata.COVERAGE_ABSTRACT = TextItem(st.titleRows[1].abstract)]
            ELSE d
        nId == SectionIdAsInt(d.m_nSectionId)
    IN IF d.m_nSectionId >= 0 /\ nId \in DOMAIN st.summary /\ st.summary[nId] # ""
       THEN [withTitle EXCEPT !.metadata.SECTION_SUMMARY = Some(st.summary[nId])]
       ELSE withTitle

\* The rows of the pyramid levels query: <coverage>_levels, or for a mixed
\* resolutions coverage <coverage>_section_levels of the section whose id is
\* static_cast<int>(m_nSectionId).
LevelRows(d, st, nMixedResolutions) ==
    IF ~nMixedResolutions
    THEN (IF st.levelsRc = "SQLITE_OK" THEN st.levels ELSE <<>>)
    ELSE (IF st.levelsRc = "SQLITE_OK" /\ SectionIdAsInt(d.m_nSectionId) \in DOMAIN st.sectionLevels
          THEN st.sectionLevels[SectionIdAsInt(d.m_nSectionId)] ELSE <<>>)

\* One row of the levels query: up to four candidates, in the order
\* 1:1, 1:2, 1:4, 1:8, each skipped when a column is NULL.
RECURSIVE LevelRow(_, _, _, _, _)
LevelRow(d, row, k, bShowAll, ub) ==
    IF k > 4 THEN d
    ELSE LevelRow(IF ~IsNull(row[k].x) /\ ~IsNull(row[k].y)
                  THEN CreateRL2OverviewDatasetIfNeeded(d, Val(row[k].x), Val(row[k].y), bShowAll, ub)
                  ELSE d,
                  row, k + 1, bShowAll, ub)

RECURSIVE LevelLoop(_, _, _, _, _)
LevelLoop(d, rows, i, bShowAll, ub) ==
    IF i > Len(rows) THEN d
    ELSE LevelLoop(LevelRow(d, rows[i], 1, bShowAll, ub), rows, i + 1, bShowAll, ub)

\* "Instanciate overviews"
InstantiateOverviews(d, st, bShowAll, ub) ==
    LET d1 == [d EXCEPT !.m_bRL2MixedResolutions = st.nMixedResolutions]
    IN IF ~st.nMixedResolutions \/ d.m_nSectionId >= 0
       THEN LevelLoop(d1, LevelRows(d1, st, st.nMixedResolutions), 1, bShowAll, ub)
       ELSE d1

\* A test of the scheme that any first field passes.
AnyScheme(papszTokens) == Len(papszTokens) >= 1

\* STARTS_WITH_CI( pszConnectionId, "RASTERLITE2:" ), on the identifier's
\* colon-delimited fields.
StartsWithScheme(papszTokens) ==
    Len(papszTokens) >= 1 /\ papszTokens[1] = "RASTERLITE2"

\* An open that creates the bands as soon as the sample type is known, before
\* it validates the block size.
OpenResolvedBandsFirst(d, st, bSingleSection, opt, ub) ==
    LET info == SampleTypeInfo(st.nSampleType)
    IN IF st.nBands = 0 \/ ~info.ok THEN [ret |-> FALSE, ds |-> d]
       ELSE LET dBands == CreateBands(d, st, info, <<>>, st.nTileWidth.lo, st.nTileHeight.lo)
            IN [ret |-> ~(\/ (st.nTileWidth.hi = 0 /\ st.nTileWidth.lo = 0)
                          \/ (st.nTileHeight.hi = 0 /\ st.nTileHeight.lo = 0)
                          \/ st.nTileWidth.hi > 0
                          \/ st.nTileHeight.hi > 0),
                ds |-> dBands]

\* OpenRasterSubDataset from "Get SRS" to its end, on a dataset whose
\* geometry is resolved.
OpenResolved(d, st, bSingleSection, opt, ub) ==
    LET dSrs == IF ~IsNull(st.srs) THEN [d EXCEPT !.m_osProjection = Val(st.srs)] ELSE d
        info == SampleTypeInfo(st.nSampleType)
    IN IF st.nBands = 0 THEN [ret |-> FALSE, ds |-> dSrs]
       ELSE IF ~info.ok THEN [ret |-> FALSE, ds |-> dSrs]
       ELSE
         LET dTyped ==
               [dSrs EXCEPT
                  !.m_bPromote1BitAs8Bit =
                      IF st.nSampleType = "RL2_SAMPLE_1_BIT" /\ st.nPixelType = "RL2_PIXEL_MONOCHROME"
                      THEN opt.b1BitAs8Bit ELSE @,
                  !.metadata.COMPRESSION = CompressionName(st.nCompression),
                  !.metadata.QUALITY = QualityItem(st.nCompression, st.nQuality)]
         IN IF \/ (st.nTileWidth.hi = 0 /\ st.nTileWidth.lo = 0)
               \/ (st.nTileHeight.hi = 0 /\ st.nTileHeight.lo = 0)
               \/ st.nTileWidth.hi > 0
               \/ st.nTileHeight.hi > 0
            THEN [ret |-> FALSE, ds |-> dTyped]
            ELSE
              LET adfNoDataValues == NoDataValues(st)
                  dNoData == IF Len(adfNoDataValues) = st.nBands /\ st.nBands > 1
                             THEN [dTyped EXCEPT !.metadata.NODATA_VALUES = Some(adfNoDataValues)]
                             ELSE dTyped
                  dBands == CreateBands(dNoData, st, info, adfNoDataValues,
                                        st.nTileWidth.lo, st.nTileHeight.lo)
                  dStats == FetchStatistics(dBands, st, info, bSingleSection)
                  dMeta  == FetchOtherMetadata(dStats, st)
              IN [ret |-> TRUE, ds |-> InstantiateOverviews(dMeta, st, opt.bShowAll, ub)]

\* OGRSQLiteDataSource::OpenRasterSubDataset( pszConnectionId ) on the data
\* source d over the store st: the value returned and the data source after
\* the call.  opt holds the open option 1BIT_AS_8BIT and the configuration
\* option RL2_SHOW_ALL_PYRAMID_LEVELS.
OpenRasterSubDataset(d, st, papszTokens, opt, ub) ==
    IF ~StartsWithScheme(papszTokens) THEN [ret |-> FALSE, ds |-> d]
    ELSE IF Len(papszTokens) < 3 THEN [ret |-> FALSE, ds |-> d]
    ELSE
      LET dNamed == [d EXCEPT !.m_aosSubDatasets = <<>>,
                              !.m_osCoverageName = papszTokens[3],
                              !.m_nSectionId = IF Len(papszTokens) >= 4 THEN papszTokens[4] ELSE -1,
                              !.m_pRL2Coverage = CoverageFromDbms(st, papszTokens[3])]
      IN IF dNamed.m_pRL2Coverage = "NULL" THEN [ret |-> FALSE, ds |-> dNamed]
         ELSE LET ls == ListSections(dNamed, st)
                  g  == ResolveExtent(ls.ds, st)
              IN IF ~g.ok THEN [ret |-> FALSE, ds |-> ls.ds]
                 ELSE OpenResolved(SetGeometry(ls.ds, g), st, ls.bSingleSection, opt, ub)

----------------------------------------------------------------------------
(* Store Probe: OpenRaster                                                 *)

\* The double quote character.
DQ == "<dq>"

\* The characters of the names of the model.
Chars(name) ==
    CASE name = "cov" -> <<"c", "o", "v">>
      [] name = "co:v" -> <<"c", "o", ":", "v">>
      [] name = "co<dq>v" -> <<"c", "o", DQ, "v">>
      [] name = "other" -> <<"o", "t", "h", "e", "r">>
      [] name = "RASTERLITE2" -> <<"RASTERLITE2">>
      [] name = FileName -> <<"f.sqlite">>

\* The name that has the characters cs; "?" is a name no store has.
NameOfChars(cs) ==
    LET KnownNames == {"cov", "co:v", "co<dq>v", "other", "RASTERLITE2", FileName}
    IN IF \E n \in KnownNames : Chars(n) = cs
       THEN CHOOSE n \in KnownNames : Chars(n) = cs
       ELSE "?"

\* OGRSQLiteEscapeName( pszName ): every double quote is doubled.
RECURSIVE OGRSQLiteEscapeName(_)
OGRSQLiteEscapeName(cs) ==
    IF cs = <<>> THEN <<>>
    ELSE (IF Head(cs) = DQ THEN <<DQ, DQ>> ELSE <<Head(cs)>>) \o OGRSQLiteEscapeName(Tail(cs))

\* A name that is never quoted.
NameAsIs(cs) == cs

\* EscapeNameAndQuoteIfNeeded( pszName )
EscapeNameAndQuoteIfNeeded(cs) ==
    IF (\A i \in 1..Len(cs) : cs[i] # DQ /\ cs[i] # ":") THEN cs
    ELSE <<DQ>> \o OGRSQLiteEscapeName(cs) \o <<DQ>>

\* CPLSPrintf( "RASTERLITE2:%s:%s", file, coverage ) on the escaped names
SubDatasetName(file, coverage) ==
    <<"RASTERLITE2", ":">> \o EscapeNameAndQuoteIfNeeded(Chars(file)) \o <<":">>
      \o EscapeNameAndQuoteIfNeeded(Chars(coverage))

\* CSLTokenizeString2( pszConnectionId, ":", CSLT_HONOURSTRINGS ) from the
\* character i on: a double quote opens or closes a string and is dropped, a
\* colon outside a string ends the token, an empty token is dropped.
RECURSIVE CSLTokenizeString2(_, _, _, _, _)
CSLTokenizeString2(str, i, bInString, tok, toks) ==
    IF i > Len(str) THEN (IF tok = <<>> THEN toks ELSE Append(toks, tok))
    ELSE IF str[i] = DQ THEN CSLTokenizeString2(str, i + 1, ~bInString, tok, toks)
    ELSE IF ~bInString /\ str[i] = ":"
    THEN CSLTokenizeString2(str, i + 1, bInString, <<>>,
                            IF tok = <<>> THEN toks ELSE Append(toks, tok))
    ELSE CSLTokenizeString2(str, i + 1, bInString, Append(tok, str[i]), toks)

\* The undoubling of the double quotes of OGRSQLiteParamsUnquote.
RECURSIVE Undouble(_)
Undouble(cs) ==
    IF cs = <<>> THEN <<>>
    ELSE IF Len(cs) >= 2 /\ cs[1] = DQ /\ cs[2] = DQ THEN <<DQ>> \o Undouble(Tail(Tail(cs)))
    ELSE <<Head(cs)>> \o Undouble(Tail(cs))

\* OGRSQLiteParamsUnquote( token ): a token in quotes loses them.
OGRSQLiteParamsUnquote(cs) ==
    IF Len(cs) >= 2 /\ cs[1] = DQ /\ cs[Len(cs)] = DQ
    THEN Undouble(SubSeq(cs, 2, Len(cs) - 1))
    ELSE cs

\* CPLAtoGIntBig of a token
CPLAtoGIntBig(cs) == IF cs = <<"1">> THEN 1 ELSE IF cs = <<"2">> THEN 2 ELSE 0

\* The fields OpenRasterSubDataset gets out of an identifier: the scheme, the
\* file, the unquoted coverage name, the section id and what follows.
ConnectionTokens(pszConnectionId) ==
    LET toks == CSLTokenizeString2(pszConnectionId, 1, FALSE, <<>>, <<>>)
    IN [i \in 1..Len(toks) |->
          IF i = 4 THEN CPLAtoGIntBig(toks[i])
          ELSE IF i = 3 THEN NameOfChars(OGRSQLiteParamsUnquote(toks[i]))
          ELSE NameOfChars(toks[i])]

\* One row of raster_coverages in OpenRaster: a row with a name that loads
\* adds SUBDATASET_<n>_NAME and SUBDATASET_<n>_DESC.
CoverageRow(d, st, row) ==
    IF IsNull(row.coverage_name) THEN d
    ELSE IF CoverageFromDbms(st, Val(row.coverage_name)) = "NULL" THEN d
    ELSE LET nIdx == Len(d.m_aosSubDatasets) \div 2 + 1
             withName == AddNameValue(d.m_aosSubDatasets, <<"SUBDATASET", nIdx, "NAME">>,
                                      SubDatasetName(FileName, Val(row.coverage_name)))
             withDesc == AddNameValue(withName, <<"SUBDATASET", nIdx, "DESC">>,
                            [ coverage |-> Val(row.coverage_name),
                              title    |-> IF /\ ~IsNull(row.title) /\ Val(row.title) # ""
                                              /\ Val(row.title) # "*** missing Title ***"
                                           THEN row.title ELSE Null,
                              abstract |-> IF /\ ~IsNull(row.abstract) /\ Val(row.abstract) # ""
                                              /\ Val(row.abstract) # "*** missing Abstract ***"
                                           THEN row.abstract ELSE Null ])
         IN [d EXCEPT !.m_aosSubDatasets = withDesc]

\* The loop of OpenRaster over the rows of raster_coverages from row i on.
RECURSIVE CoverageRows(_, _, _, _)
CoverageRows(d, st, rows, i) ==
    IF i > Len(rows) THEN d
    ELSE CoverageRows(CoverageRow(d, st, rows[i]), st, rows, i + 1)

\* m_aosSubDatasets.FetchNameValue( key )
FetchNameValue(list, key) ==
    (CHOOSE e \in { list[i] : i \in 1..Len(list) } : e.key = key).value

\* OGRSQLiteDataSource::OpenRaster() on the data source d over the store st.
OpenRaster(d, st, opt, ub) ==
    IF ~(st.markerRc = "SQLITE_OK" /\ st.markerRows = 1) THEN [ret |-> FALSE, ds |-> d]
    ELSE IF ~(st.registryRc = "SQLITE_OK" /\ Len(st.registryRows) > 0)
    THEN [ret |-> FALSE, ds |-> d]
    ELSE LET listed == CoverageRows(d, st, st.registryRows, 1)
         IN IF Len(listed.m_aosSubDatasets) = 2
            THEN OpenRasterSubDataset(
                   listed, st,
                   ConnectionTokens(FetchNameValue(listed.m_aosSubDatasets,
                                                   <<"SUBDATASET", 1, "NAME">>)),
                   opt, ub)
            ELSE [ret |-> listed.m_aosSubDatasets # <<>>, ds |-> listed]

\* A GetMetadata that hands out the list as soon as it has an entry.
GetMetadataNonEmpty(d, pszDomain) ==
    IF pszDomain \in {Some("SUBDATASETS"), Some("subdatasets")} /\ Len(d.m_aosSubDatasets) > 0
    THEN [from |-> "m_aosSubDatasets", papszMD |-> d.m_aosSubDatasets]
    ELSE [from |-> "GDALPamDataset", papszMD |-> <<>>]

\* OGRSQLiteDataSource::GetMetadata( pszDomain ): pszDomain is Null or the
\* text of the domain, which EQUAL compares without regard to case.
GetMetadata(d, pszDomain) ==
    IF pszDomain \in {Some("SUBDATASETS"), Some("subdatasets")} /\ Len(d.m_aosSubDatasets) > 2
    THEN [from |-> "m_aosSubDatasets", papszMD |-> d.m_aosSubDatasets]
    ELSE [from |-> "GDALPamDataset", papszMD |-> <<>>]

----------------------------------------------------------------------------
(* Block Reader                                                            *)

\* A byte of a block no call has written yet.
Unwritten == -1

\* The caller's output block before IReadBlock: nBytes unwritten bytes.
FreshBlock(nBytes) == [i \in 1..nBytes |-> Unwritten]

\* The dataset a band belongs to: 0 is the data source itself, i > 0 its i-th
\* overview dataset.
DatasetAt(d, nDs) == IF nDs = 0 THEN d ELSE d.m_apoOverviewDS[nDs]

\* a + k * q for the double q = [n, d]
PlusTimes(a, k, q) == Quot(a * q.d + k * q.n, q.d)

\* The world rectangle of block (nBlockXOff, nBlockYOff) of a band of poGDS.
BlockWindow(poGDS, band, nBlockXOff, nBlockYOff) ==
    LET gt == poGDS.m_adfGeoTransform
    IN [ dfMinX |-> PlusTimes(gt.gt0, nBlockXOff * band.nBlockXSize, gt.gt1),
         dfMaxX |-> PlusTimes(gt.gt0, (nBlockXOff + 1) * band.nBlockXSize, gt.gt1),
         dfMaxY |-> PlusTimes(gt.gt3, nBlockYOff * band.nBlockYSize, gt.gt5),
         dfMinY |-> PlusTimes(gt.gt3, (nBlockYOff + 1) * band.nBlockYSize, gt.gt5) ]

\* The pixel type asked of the fetch primitive.
OutPixel(st) ==
    IF st.nPixelType = "RL2_PIXEL_MONOCHROME" /\ st.nSampleType = "RL2_SAMPLE_1_BIT"
    THEN "RL2_PIXEL_GRAYSCALE" ELSE st.nPixelType

\* A primitive choice that looks at the section id only.
UsesSectionPrimitiveWhenSectioned(poGDS) == poGDS.m_nSectionId >= 0

\* The condition under which IReadBlock calls rl2_get_section_raw_raster_data
\* instead of rl2_get_raw_raster_data.
UsesSectionPrimitive(poGDS) ==
    /\ poGDS.m_nSectionId >= 0
    /\ (poGDS.m_bRL2MixedResolutions \/ poGDS.m_poParentDS = "NULL")

\* A collapse that happens for a promoted band instead of an un-promoted one.
CollapsesTo01IfPromoted(poGDS, st) ==
    /\ st.nPixelType = "RL2_PIXEL_MONOCHROME"
    /\ st.nSampleType = "RL2_SAMPLE_1_BIT"
    /\ poGDS.m_bPromote1BitAs8Bit
    /\ poGDS.m_poParentDS # "NULL"

\* The condition of the branch that writes 0 or 1 for each fetched byte.
CollapsesTo01(poGDS, st) ==
    /\ st.nPixelType = "RL2_PIXEL_MONOCHROME"
    /\ st.nSampleType = "RL2_SAMPLE_1_BIT"
    /\ ~poGDS.m_bPromote1BitAs8Bit
    /\ poGDS.m_poParentDS # "NULL"

\* pabyDstData[i] = ( pBuffer[i] > 127 ) ? 1 : 0 over nBytes bytes
Collapse(pBuffer, nBytes) == [i \in 1..nBytes |-> IF pBuffer[i] > 127 THEN 1 ELSE 0]

\* GDALCopyWords( pBuffer + (iBand - 1) * nDTSize, eDataType, nDTSize * nBands,
\*                pDest, eDataType, nDTSize, nWords ): the bytes of pDest.
GDALCopyWords(pBuffer, iBand, nDTSize, nBands, nWords) ==
    [i \in 1..(nWords * nDTSize) |->
        pBuffer[(iBand - 1) * nDTSize + ((i - 1) \div nDTSize) * nDTSize * nBands
                + ((i - 1) % nDTSize) + 1]]

Event(op, iBand) == [op |-> op, iBand |-> iBand]

\* The block of band iBand of dataset nDs at (x, y) is in the block cache.
IsCached(cache, nDs, iBand, x, y) ==
    \E c \in cache : c.nDs = nDs /\ c.iBand = iBand /\ c.x = x /\ c.y = y

\* A pass that decodes the block again when it is cached already.
SiblingStepOverwrites(acc, nDs, iBand, x, y, pBuffer, nDTSize, nBands, nWords, noSlot) ==
    IF iBand \in noSlot
    THEN [acc EXCEPT !.log = @ \o << Event("TryGetLockedBlockRef NULL", iBand),
                                     Event("GetLockedBlockRef NULL", iBand) >>]
    ELSE [ cache |-> { c \in acc.cache :
                         ~(c.nDs = nDs /\ c.iBand = iBand /\ c.x = x /\ c.y = y) } \cup
                       { [nDs |-> nDs, iBand |-> iBand, x |-> x, y |-> y,
                          data |-> GDALCopyWords(pBuffer, iBand, nDTSize, nBands, nWords)] },
           log   |-> acc.log \o << Event("GetLockedBlockRef", iBand),
                                   Event("GDALCopyWords", iBand),
                                   Event("DropLock", iBand) >> ]

\* A pass that keeps the lock of a block it finds in the cache.
SiblingStepKeepsLock(acc, nDs, iBand, x, y, pBuffer, nDTSize, nBands, nWords, noSlot) ==
    IF IsCached(acc.cache, nDs, iBand, x, y)
    THEN [acc EXCEPT !.log = Append(@, Event("TryGetLockedBlockRef", iBand))]
    ELSE [ cache |-> acc.cache \cup
                       { [nDs |-> nDs, iBand |-> iBand, x |-> x, y |-> y,
                          data |-> GDALCopyWords(pBuffer, iBand, nDTSize, nBands, nWords)] },
           log   |-> acc.log \o << Event("TryGetLockedBlockRef NULL", iBand),
                                   Event("GetLockedBlockRef", iBand),
                                   Event("GDALCopyWords", iBand),
                                   Event("DropLock", iBand) >> ]

\* One pass of the loop over the other bands: acc = [cache, log].  noSlot are
\* the bands for which GetLockedBlockRef returns NULL.
SiblingStep(acc, nDs, iBand, x, y, pBuffer, nDTSize, nBands, nWords, noSlot) ==
    IF IsCached(acc.cache, nDs, iBand, x, y)
    THEN [acc EXCEPT !.log = @ \o << Event("TryGetLockedBlockRef", iBand),
                                     Event("DropLock", iBand) >>]
    ELSE IF iBand \in noSlot
    THEN [acc EXCEPT !.log = @ \o << Event("TryGetLockedBlockRef NULL", iBand),
                                     Event("GetLockedBlockRef NULL", iBand) >>]
    ELSE [ cache |-> acc.cache \cup
                       { [nDs |-> nDs, iBand |-> iBand, x |-> x, y |-> y,
                          data |-> GDALCopyWords(pBuffer, iBand, nDTSize, nBands, nWords)] },
           log   |-> acc.log \o << Event("TryGetLockedBlockRef NULL", iBand),
                                   Event("GetLockedBlockRef", iBand),
                                   Event("GDALCopyWords", iBand),
                                   Event("DropLock", iBand) >> ]

\* The loop "for( int iBand = 1; iBand <= nBands; ++iBand )" from iBand on.
RECURSIVE SiblingFill(_, _, _, _, _, _, _, _, _, _, _)
SiblingFill(acc, nDs, nBand, iBand, x, y, pBuffer, nDTSize, nBands, nWords, noSlot) ==
    IF iBand > nBands THEN acc
    ELSE SiblingFill(IF iBand = nBand THEN acc
                     ELSE SiblingStep(acc, nDs, iBand, x, y, pBuffer, nDTSize, nBands, nWords, noSlot),
                     nDs, nBand, iBand + 1, x, y, pBuffer, nDTSize, nBands, nWords, noSlot)

\* A size check that lets a longer buffer through.
SizeMismatchIfShorter(nBufSize, nExpectedBytesAllBands) == nBufSize < nExpectedBytesAllBands

\* The check of the byte count the fetch returned.
SizeMismatch(nBufSize, nExpectedBytesAllBands) == nBufSize # nExpectedBytesAllBands

\* RL2RasterBand::IReadBlock( nBlockXOff, nBlockYOff, pData ) on band nBand of
\* dataset nDs of the data source d.  fetch = [ret, pBuffer] is what the fetch
\* primitive answers, pData the caller's block, cache the block cache.  The
\* result: the value returned, the caller's block, the block cache, the
\* primitive called with its arguments, and the calls made in order.
IReadBlock(d, st, cache, nDs, nBand, nBlockXOff, nBlockYOff, pData, fetch, noSlot) ==
    LET poGDS   == DatasetAt(d, nDs)
        band    == poGDS.bands[nBand]
        prim    == IF UsesSectionPrimitive(poGDS)
                   THEN "rl2_get_section_raw_raster_data" ELSE "rl2_get_raw_raster_data"
        call    == [ primitive  |-> prim,
                     nSectionId |-> IF UsesSectionPrimitive(poGDS) THEN poGDS.m_nSectionId ELSE -1,
                     nWidth     |-> band.nBlockXSize,
                     nHeight    |-> band.nBlockYSize,
                     window     |-> BlockWindow(poGDS, band, nBlockXOff, nBlockYOff),
                     dfXRes     |-> poGDS.m_adfGeoTransform.gt1,
                     dfYRes     |-> [poGDS.m_adfGeoTransform.gt5 EXCEPT !.n = Abs(@)],
                     nOutPixel  |-> OutPixel(st) ]
        fetched == << Event(prim, 0) >>
        nDTSize == GDALGetDataTypeSizeBytes(band.eDataType)
        nWords  == band.nBlockXSize * band.nBlockYSize
        nExpectedBytesOnBand   == nWords * nDTSize
        nBands  == Len(poGDS.bands)
        nExpectedBytesAllBands == nExpectedBytesOnBand * nBands
    IN IF fetch.ret # "RL2_OK"
       THEN [ret |-> "CE_Failure", pData |-> pData, cache |-> cache, call |-> call, log |-> fetched]
       ELSE IF SizeMismatch(Len(fetch.pBuffer), nExpectedBytesAllBands)
       THEN [ret |-> "CE_Failure", pData |-> pData, cache |-> cache, call |-> call,
             log |-> Append(fetched, Event("rl2_free", 0))]
       ELSE
         LET written == IF CollapsesTo01(poGDS, st)
                        THEN Collapse(fetch.pBuffer, nExpectedBytesAllBands)
                        ELSE GDALCopyWords(fetch.pBuffer, nBand, nDTSize, nBands, nWords)
             start   == [cache |-> cache, log |-> Append(fetched, Event("write pData", nBand))]
             filled  == IF nBands > 1
                        THEN SiblingFill(start, nDs, nBand, 1, nBlockXOff, nBlockYOff,
                                         fetch.pBuffer, nDTSize, nBands, nWords, noSlot)
                        ELSE start
         IN [ret |-> "CE_None", pData |-> written, cache |-> filled.cache, call |-> call,
             log |-> Append(filled.log, Event("rl2_free", 0))]

----------------------------------------------------------------------------
(* Write Path: OGRSQLiteDriverCreateCopy                                   *)

\* CSLFetchNameValue( papszOptions, key ): the options are a record of
\* optional values.
Given(o) == ~IsNull(o)

\* The three tests CreateCopy starts with: "ok", or the error raised.
Preflight(src, opt) ==
    IF src.nBands = 0 \/ src.nBands > 255 THEN "Unsupported band count"
    ELSE IF src.gtRet = "CE_None" /\ (src.gt.gt2 # 0 \/ src.gt.gt4 # 0)
    THEN "rotation/shearing"
    ELSE IF Given(opt.APPEND_SUBDATASET) /\ ~Given(opt.COVERAGE)
    THEN "COVERAGE must be specified"
    ELSE "ok"

\* A pixel type that is inferred from the bands whatever the options.
CopyPixelTypeInferred(src, opt) ==
    IF src.nBands = 3 /\ src.eDT \in {"GDT_Byte", "GDT_UInt16"} /\ src.bRGBInterp
    THEN "RL2_PIXEL_RGB"
    ELSE IF src.nBands > 1 /\ src.eDT \in {"GDT_Byte", "GDT_UInt16"}
    THEN "RL2_PIXEL_MULTIBAND"
    ELSE IF src.nBands = 1 THEN "RL2_PIXEL_DATAGRID"
    ELSE "RL2_PIXEL_GRAYSCALE"

\* The pixel type CreateCopy gives the coverage.
CopyPixelType(src, opt) ==
    IF Given(opt.PIXEL_TYPE)
    THEN CASE Val(opt.PIXEL_TYPE) = "GRAYSCALE" -> "RL2_PIXEL_GRAYSCALE"
           [] Val(opt.PIXEL_TYPE) = "RGB" -> "RL2_PIXEL_RGB"
           [] Val(opt.PIXEL_TYPE) = "MULTIBAND" -> "RL2_PIXEL_MULTIBAND"
           [] Val(opt.PIXEL_TYPE) = "DATAGRID" -> "RL2_PIXEL_DATAGRID"
           [] OTHER -> "RL2_PIXEL_GRAYSCALE"
    ELSE IF src.nBands = 3 /\ src.eDT \in {"GDT_Byte", "GDT_UInt16"} /\ src.bRGBInterp
    THEN "RL2_PIXEL_RGB"
    ELSE IF src.nBands > 1 /\ src.eDT \in {"GDT_Byte", "GDT_UInt16"}
    THEN "RL2_PIXEL_MULTIBAND"
    ELSE IF src.nBands = 1 THEN "RL2_PIXEL_DATAGRID"
    ELSE "RL2_PIXEL_GRAYSCALE"

\* A sample type that is unsigned 8-bit for every data type.
CopySampleTypeByte(eDT) == IF eDT = "GDT_Unknown" THEN Null ELSE Some("RL2_SAMPLE_UINT8")

\* The sample type of the source's data type, Null when CreateCopy raises
\* "Unsupported data type".
CopySampleType(eDT) ==
    CASE eDT = "GDT_UInt16" -> Some("RL2_SAMPLE_UINT16")
      [] eDT = "GDT_Int16" -> Some("RL2_SAMPLE_INT16")
      [] eDT = "GDT_UInt32" -> Some("RL2_SAMPLE_UINT32")
      [] eDT = "GDT_Int32" -> Some("RL2_SAMPLE_INT32")
      [] eDT = "GDT_Float32" -> Some("RL2_SAMPLE_FLOAT")
      [] eDT = "GDT_Float64" -> Some("RL2_SAMPLE_DOUBLE")
      [] eDT = "GDT_Byte" -> Some("RL2_SAMPLE_UINT8")
      [] OTHER -> Null

\* atoi of the text of an option: the integer of the leading digits, 0 when
\* the text has none.
atoi(psz) ==
    CASE psz = "100" -> 100
      [] psz = "100%" -> 100
      [] psz = "75" -> 75
      [] psz = "50" -> 50
      [] psz = "0" -> 0
      [] OTHER -> 0

\* A compression that is never taken from the option COMPRESS.
CopyCompressionNone(opt) ==
    [ nCompression |-> "RL2_COMPRESSION_NONE",
      nQuality |-> IF Given(opt.QUALITY) THEN atoi(Val(opt.QUALITY)) ELSE 100 ]

\* Compression and quality from the options COMPRESS and QUALITY.
CopyCompression(opt) ==
    LET c == IF ~Given(opt.COMPRESS) THEN [n |-> "RL2_COMPRESSION_NONE", q |-> 100]
             ELSE CASE Val(opt.COMPRESS) = "NONE" -> [n |-> "RL2_COMPRESSION_NONE", q |-> 100]
                    [] Val(opt.COMPRESS) = "DEFLATE" -> [n |-> "RL2_COMPRESSION_DEFLATE", q |-> 100]
                    [] Val(opt.COMPRESS) = "LZMA" -> [n |-> "RL2_COMPRESSION_LZMA", q |-> 100]
                    [] Val(opt.COMPRESS) = "PNG" -> [n |-> "RL2_COMPRESSION_PNG", q |-> 100]
                    [] Val(opt.COMPRESS) = "CCITTFAX4" -> [n |-> "RL2_COMPRESSION_CCITTFAX4", q |-> 100]
                    [] Val(opt.COMPRESS) = "JPEG" -> [n |-> "RL2_COMPRESSION_JPEG", q |-> 75]
                    [] Val(opt.COMPRESS) = "WEBP" -> [n |-> "RL2_COMPRESSION_LOSSY_WEBP", q |-> 75]
                    [] Val(opt.COMPRESS) = "CHARLS" -> [n |-> "RL2_COMPRESSION_CHARLS", q |-> 100]
                    [] Val(opt.COMPRESS) = "JPEG2000" -> [n |-> "RL2_COMPRESSION_LOSSY_JP2", q |-> 20]
                    [] OTHER -> [n |-> "RL2_COMPRESSION_NONE", q |-> 100]
    IN IF ~Given(opt.QUALITY) THEN [nCompression |-> c.n, nQuality |-> c.q]
       ELSE [ nCompression |->
                IF atoi(Val(opt.QUALITY)) = 100 /\ c.n = "RL2_COMPRESSION_LOSSY_JP2"
                THEN "RL2_COMPRESSION_LOSSLESS_JP2"
                ELSE IF atoi(Val(opt.QUALITY)) = 100 /\ c.n = "RL2_COMPRESSION_LOSSY_WEBP"
                THEN "RL2_COMPRESSION_LOSSLESS_WEBP"
                ELSE c.n,
              nQuality |-> atoi(Val(opt.QUALITY)) ]

\* One call CreateCopy makes, with what it answered.
Call(op, ret) == [op |-> op, ret |-> ret]

\* CreateCopy before its first statement.  pc is the next step, ret what
\* CreateCopy returned, poDS, cvg and pNoData the objects it holds, fmt the
\* pixel format it derived.
CopyStart ==
    [ pc |-> "preflight", log |-> <<>>, ret |-> "none",
      poDS |-> "none", cvg |-> "NULL", pNoData |-> "NULL", fmt |-> Null ]

\* return NULL, after delete poDS when the data source exists
CopyFails(c, calls) ==
    [c EXCEPT !.pc = "done", !.ret = "NULL", !.log = @ \o calls,
              !.poDS = IF @ = "live" THEN "deleted" ELSE @]

\* A first step without the test of the rotation terms.
PreflightStepNoRotationTest(c, src, opt) ==
    IF src.nBands = 0 \/ src.nBands > 255 THEN CopyFails(c, <<>>)
    ELSE IF Given(opt.APPEND_SUBDATASET) /\ ~Given(opt.COVERAGE) THEN CopyFails(c, <<>>)
    ELSE IF IsNull(CopySampleType(src.eDT)) THEN CopyFails(c, <<>>)
    ELSE [c EXCEPT !.pc = "open",
                   !.fmt = Some([ nSampleType |-> Val(CopySampleType(src.eDT)),
                                  nPixelType  |-> CopyPixelType(src, opt),
                                  nBandCount  |-> src.nBands % 256,
                                  nCompression |-> CopyCompression(opt).nCompression,
                                  nQuality    |-> CopyCompression(opt).nQuality ])]

\* From the entry of CreateCopy to "Try to create datasource": the three
\* tests, then the pixel format.
PreflightStep(c, src, opt) ==
    IF Preflight(src, opt) # "ok" THEN CopyFails(c, <<>>)
    ELSE IF IsNull(CopySampleType(src.eDT)) THEN CopyFails(c, <<>>)
    ELSE [c EXCEPT !.pc = "open",
                   !.fmt = Some([ nSampleType |-> Val(CopySampleType(src.eDT)),
                                  nPixelType  |-> CopyPixelType(src, opt),
                                  nBandCount  |-> src.nBands % 256,
                                  nCompression |-> CopyCompression(opt).nCompression,
                                  nQuality    |-> CopyCompression(opt).nQuality ])]

\* "Try to create datasource": Open of the existing file with
\* APPEND_SUBDATASET, Create otherwise.
OpenOrCreateStep(c, opt, bOk) ==
    LET op == IF Given(opt.APPEND_SUBDATASET) THEN "Open" ELSE "Create"
        c1 == [c EXCEPT !.poDS = "live"]
    IN IF ~bOk THEN CopyFails(c1, << Call(op, "FALSE"), Call("delete poDS", "-") >>)
       ELSE [c1 EXCEPT !.pc = "srs", !.log = Append(@, Call(op, "TRUE"))]

\* "Try to get the SRS Id of this spatial reference system, adding to the
\* srs table if needed."
FetchSRSStep(c, src, opt) ==
    [c EXCEPT !.pc = "begin",
              !.log = IF Given(opt.SRID)
                      THEN (IF Val(opt.SRID) > 0 THEN Append(@, Call("FetchSRS", "-")) ELSE @)
                      ELSE (IF Given(src.projection) THEN Append(@, Call("FetchSRSId", "-")) ELSE @)]

\* poDS->StartTransaction()
StartTransactionStep(c) ==
    [c EXCEPT !.pc = "registry", !.log = Append(@, Call("StartTransaction", "-"))]

\* The query of sqlite_master for the table raster_coverages, and
\* CreateRasterCoveragesTable() when it has no row.
RegistryStep(c, nRowCount, bOk) ==
    LET c1 == [c EXCEPT !.log = Append(@, Call("SELECT sqlite_master", "-"))]
    IN IF nRowCount # 0 THEN [c1 EXCEPT !.pc = "lookup"]
       ELSE IF ~bOk
       THEN CopyFails(c1, << Call("CreateRasterCoveragesTable", "SQLITE_ERROR"),
                             Call("delete poDS", "-") >>)
       ELSE [c1 EXCEPT !.pc = "lookup",
                       !.log = Append(@, Call("CreateRasterCoveragesTable", "SQLITE_OK"))]

\* The query of raster_coverages for the coverage name and, when it has one
\* row, the load of the coverage.
LookupStep(c, nRowCount, bOk) ==
    LET c1 == [c EXCEPT !.log = Append(@, Call("SELECT raster_coverages", "-"))]
    IN IF nRowCount # 1 THEN [c1 EXCEPT !.pc = "create"]
       ELSE IF ~bOk
       THEN CopyFails(c1, << Call("rl2_create_coverage_from_dbms", "NULL"),
                             Call("delete poDS", "-") >>)
       ELSE [c1 EXCEPT !.pc = "load", !.cvg = "live",
                       !.log = Append(@, Call("rl2_create_coverage_from_dbms", "cvg"))]

\* The two blocks "if( cvg == NULL )": the default no-data pixel, the
\* creation of the coverage and its load.
CreateStep(c, bPixel, bCreated, bLoaded) ==
    IF ~bPixel
    THEN CopyFails(c, << Call("CreateDefaultNoData", "NULL"), Call("delete poDS", "-") >>)
    ELSE IF ~bCreated
    THEN CopyFails([c EXCEPT !.pNoData = "destroyed"],
                   << Call("CreateDefaultNoData", "pNoData"),
                      Call("rl2_create_dbms_coverage", "RL2_ERROR"),
                      Call("rl2_destroy_pixel", "-"),
                      Call("delete poDS", "-") >>)
    ELSE LET c1 == [c EXCEPT !.pNoData = "destroyed",
                             !.log = @ \o << Call("CreateDefaultNoData", "pNoData"),
                                             Call("rl2_create_dbms_coverage", "RL2_OK"),
                                             Call("rl2_destroy_pixel", "-") >>]
         IN IF ~bLoaded
            THEN CopyFails(c1, << Call("rl2_create_coverage_from_dbms", "NULL"),
                                  Call("delete poDS", "-") >>)
            ELSE [c1 EXCEPT !.pc = "load", !.cvg = "live",
                            !.log = Append(@, Call("rl2_create_coverage_from_dbms", "cvg"))]

\* A tile load whose failure is not looked at.
LoadTilesStepIgnoresFailure(c, bOk) ==
    [c EXCEPT !.pc = "commit",
              !.log = Append(@, Call("rl2_load_raw_tiles_into_dbms",
                                     IF bOk THEN "RL2_OK" ELSE "RL2_ERROR"))]

\* rl2_load_raw_tiles_into_dbms and the test of what it returns.
LoadTilesStep(c, bOk) ==
    IF ~bOk
    THEN CopyFails([c EXCEPT !.cvg = "destroyed"],
                   << Call("rl2_load_raw_tiles_into_dbms", "RL2_ERROR"),
                      Call("delete poDS", "-"),
                      Call("rl2_destroy_coverage", "-") >>)
    ELSE [c EXCEPT !.pc = "commit",
                   !.log = Append(@, Call("rl2_load_raw_tiles_into_dbms", "RL2_OK"))]

\* rl2_destroy_coverage, CommitTransaction and delete poDS
CommitStep(c) ==
    [c EXCEPT !.pc = "reopen", !.cvg = "destroyed", !.poDS = "deleted",
              !.log = @ \o << Call("rl2_destroy_coverage", "-"),
                              Call("CommitTransaction", "-"),
                              Call("delete poDS", "-") >>]

\* The Open of "RASTERLITE2:<file>:<coverage>" on a new data source, which
\* CreateCopy returns.
ReopenStep(c, bOk) ==
    [c EXCEPT !.pc = "done", !.ret = "poDS", !.poDS = "returned",
              !.log = Append(@, Call("Open RASTERLITE2:", IF bOk THEN "TRUE" ELSE "FALSE"))]

----------------------------------------------------------------------------
(* Native handles: the calls that acquire, use and release them           *)

\* The calls of OpenRaster on the coverage handles of the rows of
\* raster_coverages from row i on.
RECURSIVE CoverageRowsHandles(_, _, _)
CoverageRowsHandles(st, rows, i) ==
    IF i > Len(rows) THEN <<>>
    ELSE (IF IsNull(rows[i].coverage_name) THEN <<>>
          ELSE IF CoverageFromDbms(st, Val(rows[i].coverage_name)) = "NULL"
          THEN << Call("rl2_create_coverage_from_dbms", "NULL") >>
          ELSE << Call("rl2_create_coverage_from_dbms", "cvg"),
                  Call("rl2_destroy_coverage", "-") >>)
         \o CoverageRowsHandles(st, rows, i + 1)

\* A "Fetch statistics" that releases the statistics only when it read them.
FetchStatisticsHandlesLeaky(d, st, info, bSingleSection) ==
    IF ~(d.m_nSectionId < 0 \/ bSingleSection) THEN <<>>
    ELSE IF st.statistics = "NULL"
    THEN << Call("rl2_create_raster_statistics_from_dbms", "NULL") >>
    ELSE IF info.nBits = 1 /\ d.m_bPromote1BitAs8Bit
    THEN << Call("rl2_create_raster_statistics_from_dbms", "pStatistics") >>
    ELSE << Call("rl2_create_raster_statistics_from_dbms", "pStatistics") >>
         \o [iBand \in 1..Len(d.bands) |-> Call("rl2_get_band_statistics", st.statistics)]
         \o << Call("rl2_destroy_raster_statistics", "-") >>

\* The calls of "Fetch statistics" on the statistics handle.
FetchStatisticsHandles(d, st, info, bSingleSection) ==
    IF ~(d.m_nSectionId < 0 \/ bSingleSection) THEN <<>>
    ELSE IF st.statistics = "NULL"
    THEN << Call("rl2_create_raster_statistics_from_dbms", "NULL") >>
    ELSE << Call("rl2_create_raster_statistics_from_dbms", "pStatistics") >>
         \o (IF info.nBits = 1 /\ d.m_bPromote1BitAs8Bit THEN <<>>
             ELSE [iBand \in 1..Len(d.bands) |-> Call("rl2_get_band_statistics", st.statistics)])
         \o << Call("rl2_destroy_raster_statistics", "-") >>

\* The calls of OpenRasterSubDataset on the statistics handle: none when it
\* returns before "Fetch statistics".
OpenRasterSubDatasetHandles(d, st, papszTokens, opt, ub) ==
    LET r == OpenRasterSubDataset(d, st, papszTokens, opt, ub)
    IN IF ~r.ret THEN <<>>
       ELSE LET dNamed == [d EXCEPT !.m_osCoverageName = papszTokens[3],
                                    !.m_nSectionId = IF Len(papszTokens) >= 4
                                                     THEN papszTokens[4] ELSE -1]
            IN FetchStatisticsHandles(r.ds, st, SampleTypeInfo(st.nSampleType),
                                      ListSections(dNamed, st).bSingleSection)

\* The calls of OpenRaster on native handles.
OpenRasterHandles(d, st, opt, ub) ==
    IF ~(st.markerRc = "SQLITE_OK" /\ st.markerRows = 1) THEN <<>>
    ELSE IF ~(st.registryRc = "SQLITE_OK" /\ Len(st.registryRows) > 0) THEN <<>>
    ELSE LET listed == CoverageRows(d, st, st.registryRows, 1)
         IN CoverageRowsHandles(st, st.registryRows, 1)
            \o (IF Len(listed.m_aosSubDatasets) = 2
                THEN OpenRasterSubDatasetHandles(
                       listed, st,
                       ConnectionTokens(FetchNameValue(listed.m_aosSubDatasets,
                                                       <<"SUBDATASET", 1, "NAME">>)),
                       opt, ub)
                ELSE <<>>)

\* RL2RasterBand::GetColorTable() on a band: the band after the call and the
\* calls on the palette handle.  palette is "NULL" when the coverage has no
\* palette, else what rl2_get_palette_colors answers.
GetColorTable(band, palette) ==
    IF ~(IsNull(band.m_poCT) /\ band.m_eColorInterp = "GCI_PaletteIndex")
    THEN [band |-> band, calls |-> <<>>]
    ELSE IF palette = "NULL"
    THEN [band |-> band, calls |-> << Call("rl2_get_dbms_palette", "NULL") >>]
    ELSE [band |-> [band EXCEPT !.m_poCT = Some(IF palette = "RL2_OK" THEN "colors" ELSE "empty")],
          calls |-> << Call("rl2_get_dbms_palette", "palettePtr"),
                       Call("rl2_get_palette_colors", palette),
                       Call("rl2_destroy_palette", "-") >>]

----------------------------------------------------------------------------
(* Write Path: CreateDefaultNoData                                         *)

\* rl2_create_pixel( nSampleType, nPixelType, nBandCount ), when it does not
\* answer NULL: a pixel none of whose samples has been set.
NewPixel(nSampleType, nPixelType, nBandCount) ==
    [ nSampleType |-> nSampleType, nPixelType |-> nPixelType, nBandCount |-> nBandCount,
      samples |-> [nb \in 0..(nBandCount - 1) |-> Unwritten] ]

\* rl2_set_pixel_sample_<type>( pxl, nb, v ): the sample of band nb is v; a
\* band the pixel has not is an error, which the caller does not look at.
SetSample(pxl, nb, v) ==
    IF nb \in DOMAIN pxl.samples THEN [pxl EXCEPT !.samples[nb] = v] ELSE pxl

\* for( nb = 0; nb < nBandCount; nb++ ) rl2_set_pixel_sample_<type>( pxl, nb, v )
SetAllSamples(pxl, v) == [pxl EXCEPT !.samples = [nb \in DOMAIN @ |-> v]]

\* CreateDefaultNoData( nSampleType, nPixelType, nBandCount ): Null for NULL.
\* bCreated: rl2_create_pixel answers a pixel.  The branches "default:
\* CPLAssert(false)" leave the pixel as it was created.
CreateDefaultNoData(nSampleType, nPixelType, nBandCount, bCreated) ==
    LET pxl == NewPixel(nSampleType, nPixelType, nBandCount)
    IN IF ~bCreated THEN Null
       ELSE Some(
         CASE nPixelType = "RL2_PIXEL_MONOCHROME" -> SetSample(pxl, 0, 0)
           [] nPixelType = "RL2_PIXEL_PALETTE" ->
                IF nSampleType \in {"RL2_SAMPLE_1_BIT", "RL2_SAMPLE_2_BIT", "RL2_SAMPLE_4_BIT",
                                    "RL2_SAMPLE_UINT8"}
                THEN SetSample(pxl, 0, 0) ELSE pxl
           [] nPixelType = "RL2_PIXEL_GRAYSCALE" ->
                CASE nSampleType = "RL2_SAMPLE_1_BIT" -> SetSample(pxl, 0, 1)
                  [] nSampleType = "RL2_SAMPLE_2_BIT" -> SetSample(pxl, 0, 3)
                  [] nSampleType = "RL2_SAMPLE_4_BIT" -> SetSample(pxl, 0, 15)
                  [] nSampleType = "RL2_SAMPLE_UINT8" -> SetSample(pxl, 0, 255)
                  [] nSampleType = "RL2_SAMPLE_UINT16" -> SetSample(pxl, 0, 0)
                  [] OTHER -> pxl
           [] nPixelType = "RL2_PIXEL_RGB" ->
                CASE nSampleType = "RL2_SAMPLE_UINT8" ->
                       SetSample(SetSample(SetSample(pxl, 0, 255), 1, 255), 2, 255)
                  [] nSampleType = "RL2_SAMPLE_UINT16" ->
                       SetSample(SetSample(SetSample(pxl, 0, 0), 1, 0), 2, 0)
                  [] OTHER -> pxl
           [] nPixelType = "RL2_PIXEL_DATAGRID" ->
                IF nSampleType \in {"RL2_SAMPLE_INT8", "RL2_SAMPLE_UINT8", "RL2_SAMPLE_INT16",
                                    "RL2_SAMPLE_UINT16", "RL2_SAMPLE_INT32", "RL2_SAMPLE_UINT32",
                                    "RL2_SAMPLE_FLOAT", "RL2_SAMPLE_DOUBLE"}
                THEN SetSample(pxl, 0, 0) ELSE pxl
           [] nPixelType = "RL2_PIXEL_MULTIBAND" ->
                CASE nSampleType = "RL2_SAMPLE_UINT8" -> SetAllSamples(pxl, 255)
                  [] nSampleType = "RL2_SAMPLE_UINT16" -> SetAllSamples(pxl, 0)
                  [] OTHER -> pxl
           [] OTHER -> pxl )

----------------------------------------------------------------------------
(* Write Path: the tile callback and the tile loader                       *)

\* static_cast<int>(0.5 + s / r) for r # 0
CastHalfPlusOver(s, r) == IF r > 0 THEN CastHalfPlus(s, r) ELSE CastHalfPlus(-s, -r)

\* The byte the source raster holds at pixel (x, y), band b, byte k of the
\* sample: never 0.
SrcByte(x, y, b, k) == 1 + ((x + 5 * y + 11 * b + k) % 255)

\* The rectangle CreateCopy gives the loader: dfXMin, dfYMin, dfXMax, dfYMax,
\* with dfYMin and dfYMax swapped when dfYMin > dfYMax.
CopyExtent(poSrcDS, gt) ==
    LET dfXMin == gt.gt0
        dfXMax == gt.gt0 + gt.gt1 * poSrcDS.nRasterXSize
        dfYMax == gt.gt3
        dfYMin == gt.gt3 + gt.gt5 * poSrcDS.nRasterYSize
    IN [ dfXMin |-> dfXMin, dfXMax |-> dfXMax,
         dfYMin |-> IF dfYMin > dfYMax THEN dfYMax ELSE dfYMin,
         dfYMax |-> IF dfYMin > dfYMax THEN dfYMin ELSE dfYMax ]

\* The window of the source that GDALDataset::RasterIO accepts.
WindowInSource(poSrcDS, nXOff, nYOff, nReqXSize, nReqYSize) ==
    /\ nXOff >= 0 /\ nYOff >= 0
    /\ nReqXSize >= 1 /\ nReqYSize >= 1
    /\ nXOff + nReqXSize <= poSrcDS.nRasterXSize
    /\ nYOff + nReqYSize <= poSrcDS.nRasterYSize

\* RasterIO( GF_Read, nXOff, nYOff, nReqXSize, nReqYSize, pabyBuffer, ...,
\* nBands, NULL, nPixelSpacing, nLineSpacing, nDTSize ): the buffer after it.
RasterIORead(pabyBuffer, nXOff, nYOff, nReqXSize, nReqYSize, nBands, nDTSize, nLineSpacing) ==
    LET nPixelSpacing == nDTSize * nBands
        Written(i) ==
            LET o == i - 1
                y == o \div nLineSpacing
                x == (o % nLineSpacing) \div nPixelSpacing
            IN y < nReqYSize /\ x < nReqXSize
    IN [i \in 1..Len(pabyBuffer) |->
          IF Written(i)
          THEN LET o == i - 1
               IN SrcByte(nXOff + (o % nLineSpacing) \div nPixelSpacing,
                          nYOff + o \div nLineSpacing,
                          (o % nPixelSpacing) \div nDTSize, o % nDTSize)
          ELSE pabyBuffer[i]]

\* A tile that is cleared only when it extends past both edges.
ZeroInitializeBothEdges(bOverX, bOverY) == bOverX /\ bOverY

\* bZeroInitialize: the tile extends past the right or the bottom edge.
ZeroInitialize(bOverX, bOverY) == bOverX \/ bOverY

\* A callback that goes on after a cancellation.
CallbackReturnsIgnoringCancel(bReadOk, bReports, bContinue) == bReadOk

\* What RasterLite2Callback returns: FALSE when RasterIO failed or the
\* progress function asked to stop.
CallbackReturns(bReadOk, bReports, bContinue) == bReadOk /\ (bReports => bContinue)

\* RasterLite2Callback( data, dfTileMinX, dfTileMinY, dfTileMaxX, dfTileMaxY,
\* pabyBuffer, palette ).  bReadOk: RasterIO succeeds on a window it accepts;
\* bContinue: what the progress function answers.
RasterLite2Callback(pCbkData, tile, pabyBuffer, bReadOk, bContinue) ==
    LET gt       == pCbkData.adfGeoTransform
        poSrcDS  == pCbkData.poSrcDS
        nXOff    == CastHalfPlusOver(tile.dfTileMinX - gt.gt0, gt.gt1)
        nXOff2   == CastHalfPlusOver(tile.dfTileMaxX - gt.gt0, gt.gt1)
        nYOff    == CastHalfPlusOver(tile.dfTileMaxY - gt.gt3, gt.gt5)
        nYOff2   == CastHalfPlusOver(tile.dfTileMinY - gt.gt3, gt.gt5)
        bOverX   == nXOff2 > poSrcDS.nRasterXSize
        bOverY   == nYOff2 > poSrcDS.nRasterYSize
        nReqXSize == IF bOverX THEN poSrcDS.nRasterXSize - nXOff ELSE nXOff2 - nXOff
        nReqYSize == IF bOverY THEN poSrcDS.nRasterYSize - nYOff ELSE nYOff2 - nYOff
        bZeroInitialize == ZeroInitialize(bOverX, bOverY)
        nDTSize  == GDALGetDataTypeSizeBytes(poSrcDS.eDT)
        nBands   == poSrcDS.nBands
        nFill    == (nXOff2 - nXOff) * (nYOff2 - nYOff) * nBands * nDTSize
        bOverrun == bZeroInitialize /\ (nFill < 0 \/ nFill > Len(pabyBuffer))
        cleared  == IF bZeroInitialize
                    THEN [i \in 1..Len(pabyBuffer) |-> IF i <= nFill THEN 0 ELSE pabyBuffer[i]]
                    ELSE pabyBuffer
        bValid   == WindowInSource(poSrcDS, nXOff, nYOff, nReqXSize, nReqYSize)
        eErr     == IF bValid /\ bReadOk THEN "CE_None" ELSE "CE_Failure"
        bReports == eErr = "CE_None" /\ pCbkData.pfnProgress
    IN [ ret |-> CallbackReturns(eErr = "CE_None", bReports, bContinue),
         nXOff |-> nXOff, nYOff |-> nYOff, nReqXSize |-> nReqXSize, nReqYSize |-> nReqYSize,
         nTileXSize |-> nXOff2 - nXOff, nTileYSize |-> nYOff2 - nYOff,
         bZeroInitialize |-> bZeroInitialize, bOverrun |-> bOverrun,
         eErr |-> eErr,
         pabyBuffer |-> IF eErr = "CE_None"
                        THEN RasterIORead(cleared, nXOff, nYOff, nReqXSize, nReqYSize,
                                          nBands, nDTSize, nDTSize * nBands * (nXOff2 - nXOff))
                        ELSE cleared,
         progress |-> IF bReports
                      THEN Some([ n |-> nYOff + nReqYSize, d |-> poSrcDS.nRasterYSize,
                                  bContinue |-> bContinue ])
                      ELSE Null ]

\* The number of tiles of one row, and of one column, of the grid the loader
\* cuts a raster of the given size into.
TileColumns(in) == (in.poSrcDS.nRasterXSize + in.nTileWidth - 1) \div in.nTileWidth

TileRows(in) == (in.poSrcDS.nRasterYSize + in.nTileHeight - 1) \div in.nTileHeight

\* The rectangle of the k-th tile (from 0) the loader asks for: the tiles go
\* from dfXMin to the right and from dfYMax down, row after row, each of the
\* tile size of the coverage at the resolution of the coverage.
TileRect(in, k) ==
    LET ext   == CopyExtent(in.poSrcDS, in.adfGeoTransform)
        dfXRes == in.adfGeoTransform.gt1
        dfYRes == Abs(in.adfGeoTransform.gt5)
        col   == k % TileColumns(in)
        row   == k \div TileColumns(in)
        minX  == ext.dfXMin + col * in.nTileWidth * dfXRes
        maxY  == ext.dfYMax - row * in.nTileHeight * dfYRes
    IN [ dfTileMinX |-> minX, dfTileMaxX |-> minX + in.nTileWidth * dfXRes,
         dfTileMaxY |-> maxY, dfTileMinY |-> maxY - in.nTileHeight * dfYRes ]

\* rl2_load_raw_tiles_into_dbms before its first tile: k is the next tile,
\* calls what the callback did for each tile so far, pabyBuffer the tile
\* buffer after the last call, ret what the loader returned.
LoadStart(in) == [ in |-> in, k |-> 0, calls |-> <<>>, pabyBuffer |-> <<>>, ret |-> "none" ]

\* One tile of rl2_load_raw_tiles_into_dbms: the loader calls the callback on
\* a new tile buffer and stops with an error when it returns FALSE.  bCrash:
\* a memset past the end of the buffer ends the process.
LoadTileStep(l, bReadOk, bContinue, bCrash) ==
    LET in  == l.in
        n   == in.nTileWidth * in.nTileHeight * in.poSrcDS.nBands
                 * GDALGetDataTypeSizeBytes(in.poSrcDS.eDT)
        r   == RasterLite2Callback([ poSrcDS |-> in.poSrcDS, pfnProgress |-> in.pfnProgress,
                                     adfGeoTransform |-> in.adfGeoTransform ],
                                   TileRect(in, l.k), FreshBlock(n), bReadOk, bContinue)
        l1  == [l EXCEPT !.calls = Append(@, [x \in DOMAIN r \ {"pabyBuffer"} |-> r[x]]),
                         !.pabyBuffer = r.pabyBuffer]
    IN IF r.bOverrun /\ bCrash THEN [l1 EXCEPT !.ret = "crash"]
       ELSE IF ~r.ret THEN [l1 EXCEPT !.ret = "RL2_ERROR"]
       ELSE [l1 EXCEPT !.k = @ + 1]

\* The end of rl2_load_raw_tiles_into_dbms after the last tile: the pyramid
\* is built, and the loader returns.
LoadFinishStep(l, bPyramid) ==
    [l EXCEPT !.ret = IF bPyramid THEN "RL2_OK" ELSE "RL2_ERROR"]

----------------------------------------------------------------------------
(* The stores and the inputs of the open path                              *)

\* Largest number of rows of the <coverage>_sections table.
MaxSections == 3

\* Largest number of rows of the pyramid levels tables.
MaxLevelRows == 2

\* Side, in pixels, of the default raster.
BaseSize == 128

SeqsUpTo(S, n) == UNION { [1..k -> S] : k \in 0..n }

\* The two columns x_resolution_1_n, y_resolution_1_n of a levels row.
Res(x, y) == [x |-> Some(x), y |-> Some(y)]

NoRes == [x |-> Null, y |-> Null]

\* Rows of a levels table: resolutions equal to the base resolution ResUnit,
\* twice and four times it, and values a few 1e-6 away from them, on both
\* sides of the 1e-5 tolerance.
LevelRowSet ==
    { << Res(ResUnit, ResUnit), Res(2 * ResUnit, 2 * ResUnit),
         Res(4 * ResUnit, 4 * ResUnit), Res(8 * ResUnit, 8 * ResUnit) >>,
      << Res(2 * ResUnit + 15, 2 * ResUnit + 15), Res(2 * ResUnit, 2 * ResUnit), NoRes, NoRes >>,
      << Res(2 * ResUnit, 2 * ResUnit), Res(2 * ResUnit + 15, 2 * ResUnit + 15), NoRes, NoRes >>,
      << Res(2 * ResUnit + 20, 2 * ResUnit + 20), Res(2 * ResUnit, 2 * ResUnit), NoRes, NoRes >>,
      << Res(2 * ResUnit, 2 * ResUnit), Res(2 * ResUnit + 20, 2 * ResUnit + 20), NoRes, NoRes >>,
      << Res(ResUnit + 5, ResUnit + 5), Res(ResUnit + 10, ResUnit + 10),
         NoRes, Res(4 * ResUnit, 4 * ResUnit) >>,
      << Res(2 * ResUnit, ResUnit), NoRes, Res(4 * ResUnit, 2 * ResUnit), NoRes >>,
      << NoRes, Res(16 * ResUnit, 16 * ResUnit), NoRes, [x |-> Some(2 * ResUnit), y |-> Null] >>,
      << Res(ResUnit - 5, ResUnit), Res(64 * ResUnit, 64 * ResUnit), NoRes, NoRes >> }

LevelTables == SeqsUpTo(LevelRowSet, MaxLevelRows)

\* A section the raster library resolves: extent, base resolution and size.
SectionOk(nWidth, nHeight, dfXRes, dfYRes) ==
    [ baseRet |-> "RL2_OK", dfXRes |-> dfXRes, dfYRes |-> dfYRes, fullRet |-> "RL2_OK",
      dfMinX |-> 0, dfMinY |-> 0,
      dfMaxX |-> IF nWidth.hi = 0 THEN nWidth.lo * dfXRes ELSE INT_MAX,
      dfMaxY |-> IF nHeight.hi = 0 THEN nHeight.lo * dfYRes ELSE INT_MAX,
      nWidth |-> nWidth, nHeight |-> nHeight ]

SectionGeometryProfiles ==
    { SectionOk(U32(0, BaseSize), U32(0, BaseSize), ResUnit, ResUnit),
      SectionOk(U32(0, BaseSize), U32(0, 2), ResUnit, ResUnit),
      SectionOk(U32(0, 0), U32(0, BaseSize), ResUnit, ResUnit),
      SectionOk(U32(0, BaseSize), U32(0, 0), ResUnit, ResUnit),
      SectionOk(U32(0, 1), U32(0, 1), ResUnit, ResUnit),
      SectionOk(U32(0, INT_MAX), U32(0, BaseSize), 1, 1),
      SectionOk(U32(1, 0), U32(0, BaseSize), 1, 1),
      SectionOk(U32(0, BaseSize), U32(1, 5), 1, 1),
      [SectionOk(U32(0, BaseSize), U32(0, BaseSize), ResUnit, ResUnit) EXCEPT !.fullRet = "RL2_ERROR"],
      [baseRet |-> "RL2_ERROR"] }

ExtentRow(minX, minY, maxX, maxY) == << <<Some(minX), Some(minY), Some(maxX), Some(maxY)>> >>

\* A store with one loadable coverage "cov" of BaseSize x BaseSize pixels of
\* one ground unit, one 8-bit grayscale band, no section.
StoreBase ==
    [ markerRc          |-> "SQLITE_OK",
      markerRows        |-> 1,
      registryRc        |-> "SQLITE_OK",
      registryRows      |-> << [coverage_name |-> Some("cov"), title |-> Some("title"),
                                abstract |-> Some("*** missing Abstract ***")] >>,
      coverages         |-> {"cov"},
      sectionsRc        |-> "SQLITE_OK",
      sections          |-> <<>>,
      sectionGeometry   |-> <<>>,
      extentRc          |-> "SQLITE_OK",
      extentRows        |-> ExtentRow(0, 0, BaseSize * ResUnit, BaseSize * ResUnit),
      dfXRes            |-> ResUnit,
      dfYRes            |-> ResUnit,
      srs               |-> Some("WKT"),
      nSampleType       |-> "RL2_SAMPLE_UINT8",
      nPixelType        |-> "RL2_PIXEL_GRAYSCALE",
      nBands            |-> 1,
      nCompression      |-> "RL2_COMPRESSION_NONE",
      nQuality          |-> 100,
      nTileWidth        |-> U32(0, 2),
      nTileHeight       |-> U32(0, 1),
      noData            |-> Null,
      statistics        |-> "RL2_OK",
      titleRc           |-> "SQLITE_OK",
      titleRows         |-> << [title |-> Some("*** missing Title ***"), abstract |-> Some("text")] >>,
      summary           |-> <<>>,
      nMixedResolutions |-> FALSE,
      levelsRc          |-> "SQLITE_OK",
      levels            |-> << << Res(ResUnit, ResUnit), Res(2 * ResUnit, 2 * ResUnit),
                                  Res(4 * ResUnit, 4 * ResUnit), NoRes >> >>,
      sectionLevels     |-> <<>> ]

\* The store with the sections table, the sections' geometry and levels set.
WithSections(st, rows, rc, geom, levels) ==
    [st EXCEPT !.sections = rows,
               !.sectionsRc = rc,
               !.sectionGeometry = [id \in 1..Len(rows) |-> geom],
               !.summary = [id \in 1..Len(rows) |-> IF id = 1 THEN "summary" ELSE ""],
               !.sectionLevels = [id \in 1..Len(rows) |-> levels]]

\* n rows with ids 1..n; with bNullName the first row has a NULL name.
SectionTable(n, bNullName) ==
    [j \in 1..n |-> [section_id |-> Some(j),
                     section_name |-> IF bNullName /\ j = 1 THEN Null ELSE Some("section")]]

\* Stores that differ in their sections.
SectionStores ==
    { WithSections([StoreBase EXCEPT !.nMixedResolutions = mixed],
                   SectionTable(n, bNullName), rc, geom, StoreBase.levels) :
        n \in 0..MaxSections, bNullName \in BOOLEAN,
        rc \in {"SQLITE_OK", "SQLITE_ERROR"},
        geom \in SectionGeometryProfiles, mixed \in BOOLEAN }

\* Stores with a section whose id is 2^32 + 2^16 (65537 units of 2^16), alone
\* or next to the section of id 2^16 (1 unit): each section has its own
\* summary and its own pyramid levels.
WideStores ==
    { [StoreBase EXCEPT
         !.nMixedResolutions = mixed,
         !.sections = [j \in 1..Len(ids) |-> [section_id |-> Some(ids[j]),
                                              section_name |-> Some("section")]],
         !.sectionGeometry = [id \in {1, 65537} |->
                                 IF \E j \in 1..Len(ids) : ids[j] = id
                                 THEN SectionOk(U32(0, BaseSize), U32(0, BaseSize), ResUnit, ResUnit)
                                 ELSE [baseRet |-> "RL2_ERROR"]],
         !.summary = [id \in { ids[j] : j \in 1..Len(ids) } |->
                         IF id = 1 THEN "summary" ELSE "summary of the wide section"],
         !.sectionLevels = [id \in { ids[j] : j \in 1..Len(ids) } |->
                               IF id = 1 THEN <<>> ELSE StoreBase.levels]] :
        ids \in { <<65537>>, <<1, 65537>> }, mixed \in BOOLEAN }

\* Extent spans (maxX - minX) and resolutions of the whole-coverage path:
\* no span, less than half a pixel, half a pixel, BaseSize pixels, BaseSize
\* pixels and three quarters, a negative span, INT_MAX - 1 and INT_MAX pixels.
SpanProfiles ==
    { [span |-> 0, res |-> ResUnit],
      [span |-> (3 * ResUnit) \div 10, res |-> ResUnit],
      [span |-> ResUnit \div 2, res |-> ResUnit],
      [span |-> BaseSize * ResUnit, res |-> ResUnit],
      [span |-> BaseSize * ResUnit + (3 * ResUnit) \div 4, res |-> ResUnit],
      [span |-> 2 * ResUnit, res |-> ResUnit],
      [span |-> -ResUnit, res |-> ResUnit],
      [span |-> INT_MAX - 1, res |-> 1],
      [span |-> INT_MAX, res |-> 1] }

\* Stores that differ in the registry extent and the coverage resolution.
GeometryStores ==
    { [StoreBase EXCEPT !.extentRows = ExtentRow(0, 0, px.span, py.span),
                        !.dfXRes = px.res, !.dfYRes = py.res] :
        px \in SpanProfiles, py \in SpanProfiles }
    \cup { [StoreBase EXCEPT !.extentRc = "SQLITE_ERROR"],
           [StoreBase EXCEPT !.extentRows = <<>>],
           [StoreBase EXCEPT !.extentRows = @ \o @],
           [StoreBase EXCEPT !.extentRows[1][3] = Null] }

\* Stores that differ in the pyramid levels table.
LevelStores ==
    { [StoreBase EXCEPT !.levels = t, !.levelsRc = rc,
                        !.extentRows = ExtentRow(0, 0, w * ResUnit, h * ResUnit)] :
        t \in LevelTables, rc \in {"SQLITE_OK"},
        w \in {BaseSize, 4}, h \in {BaseSize, 2} }
    \cup { [StoreBase EXCEPT !.levelsRc = "SQLITE_ERROR"] }

\* Stores that differ in the coverage's pixel format and tile size.
TypeStores ==
    { [StoreBase EXCEPT !.nSampleType = t.s, !.nPixelType = t.p, !.nBands = t.n] :
        t \in { [s |-> "RL2_SAMPLE_1_BIT", p |-> "RL2_PIXEL_MONOCHROME", n |-> 1],
                [s |-> "RL2_SAMPLE_UINT8", p |-> "RL2_PIXEL_RGB", n |-> 3],
                [s |-> "RL2_SAMPLE_UINT16", p |-> "RL2_PIXEL_DATAGRID", n |-> 1],
                [s |-> "RL2_SAMPLE_UNKNOWN", p |-> "RL2_PIXEL_GRAYSCALE", n |-> 1],
                [s |-> "RL2_SAMPLE_UINT8", p |-> "RL2_PIXEL_GRAYSCALE", n |-> 0] } }
    \cup { [StoreBase EXCEPT !.nSampleType = s, !.nPixelType = "RL2_PIXEL_DATAGRID", !.nBands = 1] :
             s \in { "RL2_SAMPLE_2_BIT", "RL2_SAMPLE_4_BIT", "RL2_SAMPLE_INT8", "RL2_SAMPLE_UINT8",
                     "RL2_SAMPLE_INT16", "RL2_SAMPLE_INT32", "RL2_SAMPLE_UINT32",
                     "RL2_SAMPLE_FLOAT", "RL2_SAMPLE_DOUBLE", "RL2_SAMPLE_OTHER" } }
    \cup { [StoreBase EXCEPT !.nTileWidth = U32(0, 0)],
           [StoreBase EXCEPT !.nTileHeight = U32(1, 0)],
           [StoreBase EXCEPT !.coverages = {}] }

\* Stores whose coverage has a no-data pixel: of the sample type, the pixel
\* type and the band count of the coverage, or of others; bTypeOk is what
\* rl2_get_pixel_type answers.
NoDataStores ==
    { [StoreBase EXCEPT
         !.nSampleType = t.s, !.nPixelType = t.p, !.nBands = t.n,
         !.noData = Some([ ret         |-> IF bTypeOk THEN "RL2_OK" ELSE "RL2_ERROR",
                           nSampleType |-> IF bSample THEN t.s ELSE "RL2_SAMPLE_UINT16",
                           nPixelType  |-> IF bPixel THEN t.p ELSE "RL2_PIXEL_MULTIBAND",
                           nBands      |-> IF bBands THEN t.n ELSE 4 - t.n,
                           samples     |-> [i \in 1..(IF bBands THEN t.n ELSE 4 - t.n) |-> 10 + i] ])] :
        t \in { [s |-> "RL2_SAMPLE_UINT8", p |-> "RL2_PIXEL_GRAYSCALE", n |-> 1],
                [s |-> "RL2_SAMPLE_UINT8", p |-> "RL2_PIXEL_RGB", n |-> 3],
                [s |-> "RL2_SAMPLE_INT16", p |-> "RL2_PIXEL_DATAGRID", n |-> 1] },
        bTypeOk \in BOOLEAN, bSample \in BOOLEAN, bPixel \in BOOLEAN, bBands \in BOOLEAN }

Stores == SectionStores \cup GeometryStores \cup LevelStores \cup TypeStores \cup NoDataStores \cup WideStores

\* Connection identifiers, as their colon-delimited fields.
ConnectionIds ==
    { <<"RASTERLITE2", FileName, "cov">>,
      <<"RASTERLITE2", FileName, "cov", 1, "section">>,
      <<"RASTERLITE2", FileName, "cov", 2>>,
      <<"RASTERLITE2", FileName, "cov", MaxSections + 2, "section">>,
      <<"RASTERLITE2", FileName, "cov", 65537, "section">>,
      <<"RASTERLITE2", FileName, "other">>,
      <<"RASTERLITE2", FileName>>,
      <<"SQLITE", FileName, "cov">> }

OpenOptions == [b1BitAs8Bit : BOOLEAN, bShowAll : BOOLEAN]

\* What static_cast<int> of a NaN may yield.
UBCasts == { -INT_MAX - 1, 0, 100 }

\* Largest number of overviews the generic mechanism has.
MaxPamOverviews == 2

\* What GDALPamRasterBand answers for a band: no no-data value or one, and
\* up to MaxPamOverviews overviews.
PamStates ==
    { [bSuccess |-> b, dfNoData |-> IF b THEN 7 ELSE 0, nOverviews |-> n] :
        b \in BOOLEAN, n \in 0..MaxPamOverviews }

\* The stores whose bands are queried: those with a no-data pixel, without
\* pyramid, and coverages of one and of three bands with and without a
\* pyramid.
QueryStores ==
    { [st EXCEPT !.levels = <<>>] : st \in NoDataStores }
    \cup { [StoreBase EXCEPT !.levels = l, !.nBands = t.n, !.nPixelType = t.p] :
             l \in {StoreBase.levels, <<>>},
             t \in { [n |-> 1, p |-> "RL2_PIXEL_GRAYSCALE"], [n |-> 3, p |-> "RL2_PIXEL_RGB"] } }

----------------------------------------------------------------------------
(* The stores and the inputs of the block reader                           *)

\* Width and height, in pixels, of the coverages with a pyramid.
ReadWidth == 8

ReadHeight == 4

\* Largest sum of the x and y offsets of a block read.
MaxBlockOff == 1

\* 1-bit monochrome coverages of ReadWidth x ReadHeight pixels in tiles of
\* 2 x 1, with a pyramid: without section, or with one section; of a
\* mixed-resolutions coverage or not.
MonoStores ==
    { LET st == [StoreBase EXCEPT
                   !.nSampleType = "RL2_SAMPLE_1_BIT", !.nPixelType = "RL2_PIXEL_MONOCHROME",
                   !.nMixedResolutions = mixed,
                   !.extentRows = ExtentRow(0, 0, ReadWidth * ResUnit, ReadHeight * ResUnit)]
      IN IF nSections = 0 THEN st
         ELSE WithSections(st, SectionTable(nSections, FALSE), "SQLITE_OK",
                           SectionOk(U32(0, ReadWidth), U32(0, ReadHeight), ResUnit, ResUnit),
                           StoreBase.levels) :
        nSections \in {0, 1}, mixed \in BOOLEAN }

\* Coverages of several bands, of one tile of 2 x 1 pixels and no pyramid:
\* 8-bit RGB and two-band 16-bit.
BandStores ==
    { [StoreBase EXCEPT
         !.nSampleType = t.s, !.nPixelType = t.p, !.nBands = t.n,
         !.levels = <<>>,
         !.extentRows = ExtentRow(0, 0, 2 * ResUnit, ResUnit)] :
        t \in { [s |-> "RL2_SAMPLE_UINT8", p |-> "RL2_PIXEL_RGB", n |-> 3],
                [s |-> "RL2_SAMPLE_UINT16", p |-> "RL2_PIXEL_MULTIBAND", n |-> 2] } }

ReadStores == MonoStores \cup BandStores

\* Number of bytes of one block of all the bands of a dataset.
BlockBytes(poGDS) ==
    LET band == poGDS.bands[1]
    IN band.nBlockXSize * band.nBlockYSize * GDALGetDataTypeSizeBytes(band.eDataType)
         * Len(poGDS.bands)

\* First bytes of the buffers fetched for a dataset of nBands bands: the
\* buffers hold consecutive byte values, modulo 256.
FirstBytes(nBands) ==
    CASE nBands = 1 -> {0, 127, 254}
      [] nBands = 2 -> {1, 127}
      [] OTHER      -> {126, 127}

\* What a fetch primitive may answer when n bytes are expected: an error, or
\* a buffer of n - 1, n or n + 1 bytes.
FetchAnswers(n, nBands) ==
    { [ret |-> "RL2_ERROR", pBuffer |-> <<>>] }
    \cup { [ret |-> "RL2_OK", pBuffer |-> [i \in 1..k |-> (first + i - 1) % 256]] :
             k \in {n - 1, n, n + 1}, first \in FirstBytes(nBands) }

----------------------------------------------------------------------------
(* The inputs of the write path                                            *)

\* What GetGeoTransform of the source answers: a north-up transform, one with
\* a rotation term, one with a shear term, and CE_Failure with the default
\* transform.
SourceGeoTransforms ==
    { [ret |-> "CE_None", gt |-> [gt0 |-> 0, gt1 |-> 1, gt2 |-> 0, gt3 |-> 4, gt4 |-> 0, gt5 |-> -1]],
      [ret |-> "CE_None", gt |-> [gt0 |-> 0, gt1 |-> 1, gt2 |-> 1, gt3 |-> 4, gt4 |-> 0, gt5 |-> -1]],
      [ret |-> "CE_None", gt |-> [gt0 |-> 0, gt1 |-> 1, gt2 |-> 0, gt3 |-> 4, gt4 |-> -1, gt5 |-> -1]],
      [ret |-> "CE_Failure", gt |-> [gt0 |-> 0, gt1 |-> 1, gt2 |-> 0, gt3 |-> 0, gt4 |-> 0, gt5 |-> 1]] }

SourceBase ==
    [ nBands |-> 1, eDT |-> "GDT_Byte", gtRet |-> "CE_None",
      gt |-> [gt0 |-> 0, gt1 |-> 1, gt2 |-> 0, gt3 |-> 4, gt4 |-> 0, gt5 |-> -1],
      bRGBInterp |-> FALSE, projection |-> Null ]

OptionsBase ==
    [ APPEND_SUBDATASET |-> Null, COVERAGE |-> Null, PIXEL_TYPE |-> Null,
      COMPRESS |-> Null, QUALITY |-> Null, SRID |-> Null ]

\* Sources and options that differ in what the three first tests look at.
PreflightInputs ==
    { [ src |-> [SourceBase EXCEPT !.nBands = n, !.eDT = t, !.gtRet = g.ret, !.gt = g.gt],
        opt |-> [OptionsBase EXCEPT !.APPEND_SUBDATASET = a, !.COVERAGE = c] ] :
        n \in {0, 1, 3, 255, 256}, t \in {"GDT_Byte", "GDT_UInt16", "GDT_CInt16"},
        g \in SourceGeoTransforms,
        a \in {Null, Some("YES")}, c \in {Null, Some("cov")} }

\* The data types of a source band.
DataTypes ==
    { "GDT_Unknown", "GDT_Byte", "GDT_UInt16", "GDT_Int16", "GDT_UInt32", "GDT_Int32",
      "GDT_Float32", "GDT_Float64", "GDT_CInt16", "GDT_CInt32", "GDT_CFloat32", "GDT_CFloat64" }

\* Sources and options that differ in the pixel format: in the bands and the
\* option PIXEL_TYPE, or in the options COMPRESS and QUALITY.
FormatInputs ==
    { [ src |-> [SourceBase EXCEPT !.nBands = n, !.eDT = t, !.bRGBInterp = rgb],
        opt |-> [OptionsBase EXCEPT !.PIXEL_TYPE = p] ] :
        n \in {1, 2, 3, 4}, t \in DataTypes, rgb \in BOOLEAN,
        p \in {Null, Some("GRAYSCALE"), Some("RGB"), Some("MULTIBAND"), Some("DATAGRID"),
               Some("PALETTE")} }
    \cup
    { [ src |-> [SourceBase EXCEPT !.nBands = n],
        opt |-> [OptionsBase EXCEPT !.COMPRESS = z, !.QUALITY = q] ] :
        n \in {1, 3},
        z \in {Null, Some("NONE"), Some("DEFLATE"), Some("LZMA"), Some("PNG"), Some("CCITTFAX4"),
               Some("JPEG"), Some("WEBP"), Some("CHARLS"), Some("JPEG2000"), Some("LZW")},
        q \in {Null, Some("100"), Some("75"), Some("50"), Some("0"), Some("100%"), Some("high")} }

\* Sources and options that differ in the spatial reference system.
SrsInputs ==
    { [ src |-> [SourceBase EXCEPT !.projection = w],
        opt |-> [OptionsBase EXCEPT !.SRID = i] ] :
        w \in {Null, Some("WKT")}, i \in {Null, Some(0), Some(4326)} }

CopyInputs == PreflightInputs \cup FormatInputs \cup SrsInputs

\* Largest number of bands of the pixels CreateDefaultNoData is asked for.
MaxPixelBands == 4

SampleTypes ==
    { "RL2_SAMPLE_1_BIT", "RL2_SAMPLE_2_BIT", "RL2_SAMPLE_4_BIT", "RL2_SAMPLE_INT8",
      "RL2_SAMPLE_UINT8", "RL2_SAMPLE_INT16", "RL2_SAMPLE_UINT16", "RL2_SAMPLE_INT32",
      "RL2_SAMPLE_UINT32", "RL2_SAMPLE_FLOAT", "RL2_SAMPLE_DOUBLE" }

PixelTypes ==
    { "RL2_PIXEL_MONOCHROME", "RL2_PIXEL_PALETTE", "RL2_PIXEL_GRAYSCALE", "RL2_PIXEL_RGB",
      "RL2_PIXEL_MULTIBAND", "RL2_PIXEL_DATAGRID" }

\* The pixel formats CreateDefaultNoData is called with.
NoDataInputs ==
    { [nSampleType |-> s, nPixelType |-> p, nBandCount |-> n] :
        s \in SampleTypes, p \in PixelTypes, n \in 1..MaxPixelBands }

\* Largest width and height, in pixels, of the sources that are loaded.
MaxSrcSize == 5

\* Largest tile width and height, in pixels.
MaxTileSize == 2

\* The geotransforms of the sources that are loaded: north-up at resolution
\* 2, north-up at resolution 1, and the default transform of a source
\* without georeferencing, whose GetGeoTransform fails.
LoadGeoTransforms ==
    { [ret |-> "CE_None", gt |-> [gt0 |-> 10, gt1 |-> 2, gt2 |-> 0, gt3 |-> 20, gt4 |-> 0, gt5 |-> -2]],
      [ret |-> "CE_None", gt |-> [gt0 |-> 0, gt1 |-> 1, gt2 |-> 0, gt3 |-> 4, gt4 |-> 0, gt5 |-> -1]],
      [ret |-> "CE_Failure", gt |-> [gt0 |-> 0, gt1 |-> 1, gt2 |-> 0, gt3 |-> 0, gt4 |-> 0, gt5 |-> 1]] }

\* What rl2_load_raw_tiles_into_dbms is called with: the source, the tile
\* size of the coverage, the geotransform and the progress function.
LoadInputs ==
    { [ poSrcDS |-> [ nRasterXSize |-> w, nRasterYSize |-> h, nBands |-> f.n, eDT |-> f.t ],
        nTileWidth |-> tw, nTileHeight |-> th,
        gtRet |-> g.ret, adfGeoTransform |-> g.gt, pfnProgress |-> p ] :
        w \in 1..MaxSrcSize, h \in 1..MaxSrcSize,
        tw \in 2..MaxTileSize, th \in 2..MaxTileSize,
        f \in { [n |-> 1, t |-> "GDT_Byte"], [n |-> 2, t |-> "GDT_UInt16"] },
        g \in LoadGeoTransforms, p \in BOOLEAN }

----------------------------------------------------------------------------
(* State                                                                   *)

VARIABLES
    store,      \* the database the data source is opened on
    ds,         \* the OGRSQLiteDataSource object
    openRet,    \* "none" before the open, then "true" or "false"
    openCall,   \* the arguments of the open
    blockCache, \* the cached blocks of the bands: [nDs, iBand, x, y, data]
    pData,      \* the caller's block after the last IReadBlock
    readRet,    \* "none", then what the last IReadBlock returned
    readCall,   \* the last IReadBlock: its arguments and the fetch it made
    readLog,    \* the calls the last IReadBlock made, in order
    copyIn,     \* the source dataset and the options of CreateCopy
    cc,         \* the CreateCopy call: its position, objects and calls
    ld,         \* the rl2_load_raw_tiles_into_dbms call of CreateCopy
    nd,         \* the CreateDefaultNoData call of CreateCopy
    qry         \* the last query of a band: the call and what it answered

openVars == <<store, ds, openRet, openCall>>

readVars == <<blockCache, pData, readRet, readCall, readLog>>

copyVars == <<copyIn, cc>>

loadVars == <<ld, nd>>

queryVars == <<qry>>

vars == <<store, ds, openRet, openCall, blockCache, pData, readRet, readCall, readLog, copyIn, cc, ld, nd, qry>>

NoRead ==
    /\ blockCache = {}
    /\ pData = <<>>
    /\ readRet = "none"
    /\ readCall = Null
    /\ readLog = <<>>

NoCopy ==
    /\ copyIn = Null
    /\ cc = CopyStart

NoLoad == ld = Null /\ nd = Null

NoQuery == qry = Null

NewOpen ==
    /\ ds = NewDataSource
    /\ openRet = "none"
    /\ openCall = Null

Init ==
    /\ store \in Stores
    /\ NewOpen
    /\ NoRead
    /\ NoCopy
    /\ NoLoad
    /\ NoQuery

\* GDALOpen of a RASTERLITE2: identifier: one call of OpenRasterSubDataset on
\* the new data source.
OpenSubDataset ==
    /\ openRet = "none"
    /\ \E papszTokens \in ConnectionIds, opt \in OpenOptions, ubW \in UBCasts, ubH \in UBCasts :
          LET r == OpenRasterSubDataset(ds, store, papszTokens, opt, [w |-> ubW, h |-> ubH])
          IN /\ ds' = r.ds
             /\ openRet' = IF r.ret THEN "true" ELSE "false"
             /\ openCall' = Some([papszTokens |-> papszTokens, opt |-> opt])
    /\ UNCHANGED store
    /\ UNCHANGED readVars
    /\ UNCHANGED copyVars
    /\ UNCHANGED loadVars
    /\ UNCHANGED queryVars

Next == OpenSubDataset

Spec == Init /\ [][Next]_vars

InitRead ==
    /\ store \in ReadStores
    /\ NewOpen
    /\ NoRead
    /\ NoCopy
    /\ NoLoad
    /\ NoQuery

\* GDALRasterBand::ReadBlock on a band of the opened data source or of one of
\* its overview datasets: one call of IReadBlock with the caller's block.
ReadBlock ==
    /\ openRet = "true"
    /\ \E nDs \in 0..Len(ds.m_apoOverviewDS) :
         LET poGDS == DatasetAt(ds, nDs)
             band  == poGDS.bands[1]
             nXBlocks == (poGDS.nRasterXSize + band.nBlockXSize - 1) \div band.nBlockXSize
             nYBlocks == (poGDS.nRasterYSize + band.nBlockYSize - 1) \div band.nBlockYSize
         IN \E nBand \in 1..Len(poGDS.bands),
               nBlockXOff \in 0..Min(MaxBlockOff, nXBlocks - 1),
               nBlockYOff \in 0..Min(MaxBlockOff, nYBlocks - 1),
               fetch \in FetchAnswers(BlockBytes(poGDS), Len(poGDS.bands)) :
              /\ nBlockXOff + nBlockYOff <= MaxBlockOff
              /\ \E noSlot \in SUBSET (1..Len(poGDS.bands) \ {nBand}) :
                   LET r == IReadBlock(ds, store, blockCache, nDs, nBand, nBlockXOff, nBlockYOff,
                                       FreshBlock(BlockBytes(poGDS) \div Len(poGDS.bands)),
                                       fetch, noSlot)
                   IN /\ pData' = r.pData
                      /\ readRet' = r.ret
                      /\ blockCache' = r.cache
                      /\ readLog' = r.log
                      /\ readCall' = Some([ nDs |-> nDs, nBand |-> nBand,
                                            nBlockXOff |-> nBlockXOff, nBlockYOff |-> nBlockYOff,
                                            fetch |-> fetch, noSlot |-> noSlot, rl2 |-> r.call ])
    /\ UNCHANGED openVars
    /\ UNCHANGED copyVars
    /\ UNCHANGED loadVars
    /\ UNCHANGED queryVars

NextRead == OpenSubDataset \/ ReadBlock

SpecRead == InitRead /\ [][NextRead]_vars

InitCopy ==
    /\ store = StoreBase
    /\ NewOpen
    /\ NoRead
    /\ \E in \in CopyInputs : copyIn = Some(in)
    /\ cc = CopyStart
    /\ NoLoad
    /\ NoQuery

CopyStep(pc, next) ==
    /\ cc.pc = pc
    /\ cc' = next
    /\ UNCHANGED <<copyIn, openVars, readVars, loadVars, queryVars>>

CopyPreflight ==
    CopyStep("preflight", PreflightStep(cc, Val(copyIn).src, Val(copyIn).opt))

CopyOpenOrCreate ==
    \E bOk \in BOOLEAN : CopyStep("open", OpenOrCreateStep(cc, Val(copyIn).opt, bOk))

CopyFetchSRS ==
    CopyStep("srs", FetchSRSStep(cc, Val(copyIn).src, Val(copyIn).opt))

CopyStartTransaction ==
    CopyStep("begin", StartTransactionStep(cc))

CopyRegistry ==
    \E nRowCount \in {0, 1}, bOk \in BOOLEAN :
        CopyStep("registry", RegistryStep(cc, nRowCount, bOk))

CopyLookup ==
    \E nRowCount \in {0, 1, 2}, bOk \in BOOLEAN :
        CopyStep("lookup", LookupStep(cc, nRowCount, bOk))

CopyCreate ==
    \E bPixel \in BOOLEAN, bCreated \in BOOLEAN, bLoaded \in BOOLEAN :
        CopyStep("create", CreateStep(cc, bPixel, bCreated, bLoaded))

CopyLoadTiles ==
    \E bOk \in BOOLEAN : CopyStep("load", LoadTilesStep(cc, bOk))

CopyCommit ==
    CopyStep("commit", CommitStep(cc))

CopyReopen ==
    \E bOk \in BOOLEAN : CopyStep("reopen", ReopenStep(cc, bOk))

NextCopy ==
    \/ CopyPreflight
    \/ CopyOpenOrCreate
    \/ CopyFetchSRS
    \/ CopyStartTransaction
    \/ CopyRegistry
    \/ CopyLookup
    \/ CopyCreate
    \/ CopyLoadTiles
    \/ CopyCommit
    \/ CopyReopen

SpecCopy == InitCopy /\ [][NextCopy]_vars

InitQuery ==
    /\ store \in QueryStores
    /\ NewOpen
    /\ NoRead
    /\ NoCopy
    /\ NoLoad
    /\ NoQuery

\* A call of GetNoDataValue, GetOverviewCount or GetOverview on a band of
\* the opened data source or of one of its overview datasets.
QueryBand ==
    /\ openRet = "true"
    /\ \E nDs \in 0..Len(ds.m_apoOverviewDS), pam \in PamStates, nIdx \in -1..MaxPamOverviews :
         LET poGDS == DatasetAt(ds, nDs)
         IN \E nBand \in 1..Len(poGDS.bands) :
              qry' = Some([ nDs |-> nDs, nBand |-> nBand, nIdx |-> nIdx, pam |-> pam,
                          noData |-> GetNoDataValue(poGDS.bands[nBand],
                                                    [bSuccess |-> pam.bSuccess,
                                                     dfNoData |-> pam.dfNoData]),
                          nOverviews |-> GetOverviewCount(poGDS, pam),
                          poOverview |-> GetOverview(poGDS, nBand, nIdx, pam) ])
    /\ UNCHANGED <<openVars, readVars, copyVars, loadVars>>

NextQuery == OpenSubDataset \/ QueryBand

SpecQuery == InitQuery /\ [][NextQuery]_vars

\* The most rows of raster_coverages a probed store has.
MaxCoverageRows == 2

\* The row of raster_coverages with a name; NullName is a row with a NULL name.
RegistryRow(name) ==
    [ coverage_name |-> IF name = "NullName" THEN Null ELSE Some(name),
      title         |-> IF name = "cov" THEN Some("title")
                        ELSE IF name = "co:v" THEN Some("*** missing Title ***") ELSE Null,
      abstract      |-> IF name = "cov" THEN Some("*** missing Abstract ***")
                        ELSE IF name = "co:v" THEN Some("abstract") ELSE Some("") ]

RegistryRowSeqs ==
    UNION { [1..n -> { RegistryRow(name) : name \in {"cov", "co:v", "co<dq>v", "other", "NullName"} }] :
              n \in 0..MaxCoverageRows }

\* Stores as OpenRaster finds them: with or without the marker table, with a
\* registry of up to MaxCoverageRows rows, some of which name a coverage that
\* does not load.
ProbeStores ==
    { [StoreBase EXCEPT !.markerRc = mrc, !.markerRows = mrows, !.registryRc = rrc,
                        !.registryRows = rows, !.coverages = cov] :
        mrc \in {"SQLITE_OK", "SQLITE_ERROR"}, mrows \in {0, 1},
        rrc \in {"SQLITE_OK", "SQLITE_ERROR"}, rows \in RegistryRowSeqs,
        cov \in {{"cov", "co:v", "co<dq>v"}, {"co:v", "co<dq>v"}} }

InitProbe ==
    /\ store \in ProbeStores
    /\ NewOpen
    /\ NoRead
    /\ NoCopy
    /\ NoLoad
    /\ NoQuery

\* GDALOpen of the file itself: one call of OpenRaster on the new data source.
Probe ==
    /\ openRet = "none"
    /\ \E opt \in OpenOptions, ubW \in UBCasts, ubH \in UBCasts :
          LET r == OpenRaster(ds, store, opt, [w |-> ubW, h |-> ubH])
          IN /\ ds' = r.ds
             /\ openRet' = IF r.ret THEN "true" ELSE "false"
             /\ openCall' = Some([papszTokens |-> <<FileName>>, opt |-> opt])
    /\ UNCHANGED store
    /\ UNCHANGED readVars
    /\ UNCHANGED copyVars
    /\ UNCHANGED loadVars
    /\ UNCHANGED queryVars

NextProbe == Probe

SpecProbe == InitProbe /\ [][NextProbe]_vars

\* The domains GetMetadata is asked for.
Domains == {Null, Some(""), Some("SUBDATASETS"), Some("subdatasets"), Some("IMAGE_STRUCTURE")}

InitMeta ==
    /\ store \in ProbeStores \cup SectionStores
    /\ NewOpen
    /\ NoRead
    /\ NoCopy
    /\ NoLoad
    /\ NoQuery

\* A call of GetMetadata on the data source after GDALOpen.
MetadataCall ==
    /\ openRet # "none"
    /\ \E pszDomain \in Domains :
          qry' = Some([pszDomain |-> pszDomain, md |-> GetMetadata(ds, pszDomain)])
    /\ UNCHANGED <<openVars, readVars, copyVars, loadVars>>

NextMeta == Probe \/ OpenSubDataset \/ MetadataCall

SpecMeta == InitMeta /\ [][NextMeta]_vars

\* Stores that differ in what the statistics and the palette need: the
\* statistics of the coverage, its sections, its sample and pixel type.
HandleStores ==
    { WithSections([StoreBase EXCEPT !.statistics = stat, !.nSampleType = t.s, !.nPixelType = t.p],
                   SectionTable(n, FALSE), "SQLITE_OK",
                   SectionOk(U32(0, BaseSize), U32(0, BaseSize), ResUnit, ResUnit), StoreBase.levels) :
        stat \in {"NULL", "RL2_OK", "RL2_ERROR"}, n \in 0..MaxSections,
        t \in { [s |-> "RL2_SAMPLE_1_BIT", p |-> "RL2_PIXEL_MONOCHROME"],
                [s |-> "RL2_SAMPLE_UINT8", p |-> "RL2_PIXEL_PALETTE"],
                [s |-> "RL2_SAMPLE_UINT8", p |-> "RL2_PIXEL_GRAYSCALE"] } }

\* Either CreateCopy is about to run, or a file is about to be opened.
InitHandles ==
    /\ NewOpen
    /\ NoRead
    /\ NoLoad
    /\ NoQuery
    /\ \/ store = StoreBase /\ cc = CopyStart /\ \E in \in CopyInputs : copyIn = Some(in)
       \/ store \in ProbeStores \cup HandleStores /\ NoCopy

\* The steps of CreateCopy.
CopyHandles == ~IsNull(copyIn) /\ NextCopy

\* GDALOpen of the file: OpenRaster, with its calls on native handles.
ProbeHandles ==
    /\ IsNull(copyIn)
    /\ openRet = "none"
    /\ \E opt \in OpenOptions :
          LET r == OpenRaster(ds, store, opt, [w |-> 0, h |-> 0])
          IN /\ ds' = r.ds
             /\ openRet' = IF r.ret THEN "true" ELSE "false"
             /\ openCall' = Some([papszTokens |-> <<FileName>>, opt |-> opt])
             /\ qry' = Some([site |-> "OpenRaster",
                             calls |-> OpenRasterHandles(ds, store, opt, [w |-> 0, h |-> 0])])
    /\ UNCHANGED <<store, readVars, copyVars, loadVars>>

\* GDALOpen of an identifier: OpenRasterSubDataset, with its calls on native
\* handles.
OpenHandles ==
    /\ IsNull(copyIn)
    /\ openRet = "none"
    /\ \E papszTokens \in ConnectionIds, opt \in OpenOptions :
          LET r == OpenRasterSubDataset(ds, store, papszTokens, opt, [w |-> 0, h |-> 0])
          IN /\ ds' = r.ds
             /\ openRet' = IF r.ret THEN "true" ELSE "false"
             /\ openCall' = Some([papszTokens |-> papszTokens, opt |-> opt])
             /\ qry' = Some([site |-> "OpenRasterSubDataset",
                             calls |-> OpenRasterSubDatasetHandles(ds, store, papszTokens, opt,
                                                                   [w |-> 0, h |-> 0])])
    /\ UNCHANGED <<store, readVars, copyVars, loadVars>>

\* GetColorTable on a band of the opened data source.
ColorTableCall ==
    /\ IsNull(copyIn)
    /\ openRet = "true"
    /\ \E iBand \in 1..Len(ds.bands), palette \in {"NULL", "RL2_OK", "RL2_ERROR"} :
          LET r == GetColorTable(ds.bands[iBand], palette)
          IN /\ ds' = [ds EXCEPT !.bands[iBand] = r.band]
             /\ qry' = Some([site |-> "GetColorTable", calls |-> r.calls])
    /\ UNCHANGED <<store, openRet, openCall, readVars, copyVars, loadVars>>

NextHandles == CopyHandles \/ ProbeHandles \/ OpenHandles \/ ColorTableCall

SpecHandles == InitHandles /\ [][NextHandles]_vars

\* CreateCopy at the call of rl2_load_raw_tiles_into_dbms, after it created
\* the file, the registry table and the coverage.
CopyAtLoad(src, opt) ==
    CreateStep(
      LookupStep(
        RegistryStep(
          StartTransactionStep(
            FetchSRSStep(OpenOrCreateStep(PreflightStep(CopyStart, src, opt), opt, TRUE),
                         src, opt)),
          0, TRUE),
        0, TRUE),
      TRUE, TRUE, TRUE)

InitLoad ==
    /\ store = StoreBase
    /\ NewOpen
    /\ NoRead
    /\ \E in \in LoadInputs :
         /\ copyIn = Some([ src |-> [SourceBase EXCEPT !.nBands = in.poSrcDS.nBands,
                                                       !.eDT = in.poSrcDS.eDT,
                                                       !.gtRet = in.gtRet,
                                                       !.gt = in.adfGeoTransform],
                            opt |-> OptionsBase ])
         /\ cc = CopyAtLoad(Val(copyIn).src, Val(copyIn).opt)
         /\ ld = Some(LoadStart(in))
    /\ nd = Null
    /\ NoQuery

\* The loader asks the callback for its next tile.
LoadTile ==
    /\ cc.pc = "load"
    /\ Val(ld).ret = "none"
    /\ Val(ld).k < TileColumns(Val(ld).in) * TileRows(Val(ld).in)
    /\ \E bReadOk \in BOOLEAN, bContinue \in BOOLEAN, bCrash \in BOOLEAN :
         ld' = Some(LoadTileStep(Val(ld), bReadOk, bContinue, bCrash))
    /\ UNCHANGED <<copyVars, openVars, readVars, nd, queryVars>>

\* The loader has had all its tiles.
LoadFinish ==
    /\ cc.pc = "load"
    /\ Val(ld).ret = "none"
    /\ Val(ld).k = TileColumns(Val(ld).in) * TileRows(Val(ld).in)
    /\ \E bPyramid \in BOOLEAN : ld' = Some(LoadFinishStep(Val(ld), bPyramid))
    /\ UNCHANGED <<copyVars, openVars, readVars, nd, queryVars>>

\* The loader returns to CreateCopy.
LoadReturn ==
    /\ Val(ld).ret \in {"RL2_OK", "RL2_ERROR"}
    /\ CopyStep("load", LoadTilesStep(cc, Val(ld).ret = "RL2_OK"))

NextLoad ==
    \/ LoadTile
    \/ LoadFinish
    \/ LoadReturn
    \/ CopyCommit
    \/ CopyReopen

SpecLoad == InitLoad /\ [][NextLoad]_vars

\* CreateCopy at "if( cvg == NULL )", for each pixel format.
InitNoData ==
    /\ store = StoreBase
    /\ NewOpen
    /\ NoRead
    /\ NoCopy
    /\ ld = Null
    /\ NoQuery
    /\ \E in \in NoDataInputs : nd = Some([in |-> in, called |-> FALSE, pNoData |-> Null])

\* The call of CreateDefaultNoData.
DefaultNoData ==
    /\ ~Val(nd).called
    /\ \E bCreated \in BOOLEAN :
         nd' = Some([ in |-> Val(nd).in, called |-> TRUE,
                      pNoData |-> CreateDefaultNoData(Val(nd).in.nSampleType,
                                                      Val(nd).in.nPixelType,
                                                      Val(nd).in.nBandCount, bCreated) ])
    /\ UNCHANGED <<copyVars, openVars, readVars, ld, queryVars>>

NextNoData == DefaultNoData

SpecNoData == InitNoData /\ [][NextNoData]_vars

----------------------------------------------------------------------------
(* Properties of the open path, under Spec                                 *)

Opened == openRet # "none"

\* The open was called with a RASTERLITE2 identifier of exactly three fields
\* (no section field) and its coverage loaded.
OpenedWithoutSection ==
    /\ Opened
    /\ StartsWithScheme(Val(openCall).papszTokens)
    /\ Len(Val(openCall).papszTokens) = 3
    /\ ds.m_pRL2Coverage # "NULL"

\* The sections table is readable and every row has an id and a name.
SectionsAllNamed ==
    /\ store.sectionsRc = "SQLITE_OK"
    /\ \A j \in 1..Len(store.sections) :
          ~IsNull(store.sections[j].section_id) /\ ~IsNull(store.sections[j].section_name)

\* C3: for a coverage with N sections, each with an id and a name, an open
\* without a section field leaves exactly N sub-dataset pairs (NAME then
\* DESC, numbered 1..N, the j-th naming the j-th section) when N > 1, and when
\* N = 1 leaves no sub-dataset entry and makes that section's id the active
\* section id.
C3_SectionListing ==
    (OpenedWithoutSection /\ SectionsAllNamed) =>
        LET N == Len(store.sections)
        IN /\ (N > 1 =>
                 /\ Len(ds.m_aosSubDatasets) = 2 * N
                 /\ \A j \in 1..N :
                       /\ ds.m_aosSubDatasets[2 * j - 1].key = <<"SUBDATASET", j, "NAME">>
                       /\ ds.m_aosSubDatasets[2 * j - 1].value.section_id = Val(store.sections[j].section_id)
                       /\ ds.m_aosSubDatasets[2 * j].key = <<"SUBDATASET", j, "DESC">>)
           /\ (N = 1 =>
                 /\ ds.m_aosSubDatasets = <<>>
                 /\ ds.m_nSectionId = Val(store.sections[1].section_id))

C3_Witness ==
    /\ OpenedWithoutSection /\ SectionsAllNamed
    /\ Len(store.sections) = 3
    /\ Len(ds.m_aosSubDatasets) = 6

\* The open listed the sections of a coverage with more than one section.
ListedSeveralSections ==
    /\ OpenedWithoutSection /\ SectionsAllNamed
    /\ Len(store.sections) > 1

\* The coverage-wide geometry, pixel format and tile size of the store are
\* the ones an open accepts.
WholeCoverageValid ==
    /\ LET e == RegistryExtent(store)
       IN /\ ~HalfPlusLeHalf(e.dfMaxX - e.dfMinX, store.dfXRes)
          /\ ~HalfPlusLeHalf(e.dfMaxY - e.dfMinY, store.dfYRes)
          /\ ~HalfPlusGtIntMax(e.dfMaxX - e.dfMinX, store.dfXRes)
          /\ ~HalfPlusGtIntMax(e.dfMaxY - e.dfMinY, store.dfYRes)
    /\ store.nBands > 0
    /\ SampleTypeInfo(store.nSampleType).ok
    /\ store.nTileWidth.hi = 0 /\ store.nTileWidth.lo > 0
    /\ store.nTileHeight.hi = 0 /\ store.nTileHeight.lo > 0

RelNear(a, g) ==
    LET p == a.n * g.d
        q == g.n * a.d
    IN /\ IsFinite(a) /\ IsFinite(g)
       /\ q >= 1
       /\ Abs(p - q) <= (q - 1) \div RelTolDen

C6_OverviewSizes ==
    (Opened /\ ds.nRasterXSize > 1 /\ ds.nRasterYSize > 1) =>
        \A i \in 1..Len(ds.m_apoOverviewDS) :
            LET o == ds.m_apoOverviewDS[i]
            IN /\ o.nRasterXSize > 1
               /\ o.nRasterYSize > 1
               /\ (Val(openCall).opt.bShowAll
                   \/ o.nRasterXSize >= MinOvrSize \/ o.nRasterYSize >= MinOvrSize)

\* C7: whenever the open returns success, the raster width and height are
\* both at least 1 and at most 2^31 - 1.
C7_RasterSizeInRange ==
    openRet = "true" =>
        /\ ds.nRasterXSize >= 1 /\ ds.nRasterXSize <= INT_MAX
        /\ ds.nRasterYSize >= 1 /\ ds.nRasterYSize <= INT_MAX

----------------------------------------------------------------------------
(* Properties of the block reader, under SpecRead                          *)

\* The dataset the last IReadBlock was called on.
ReadTarget == DatasetAt(ds, Val(readCall).nDs)

\* The last IReadBlock got a buffer from its fetch primitive, of a size other
\* than block width x block height x bytes per sample x band count.
FetchedWrongSize ==
    /\ readRet # "none"
    /\ Val(readCall).fetch.ret = "RL2_OK"
    /\ Len(Val(readCall).fetch.pBuffer) # BlockBytes(ReadTarget)

\* C8: an IReadBlock that succeeds fetched exactly block width x block
\* height x bytes per sample x band count bytes; one that fetched any other
\* number of bytes returns CE_Failure, has freed the buffer once, after the
\* fetch, and leaves the caller's block and the block cache of every band as
\* they were before the call.
C8_SizeValidated ==
    [][ (openRet = "true" /\ readRet' # "none") =>
          /\ (readRet' = "CE_None" =>
                /\ Val(readCall').fetch.ret = "RL2_OK"
                /\ Len(Val(readCall').fetch.pBuffer) = BlockBytes(DatasetAt(ds, Val(readCall').nDs)))
          /\ (FetchedWrongSize' =>
                /\ readRet' = "CE_Failure"
                /\ Len(readLog') = 2
                /\ readLog'[1].op = Val(readCall').rl2.primitive
                /\ readLog'[2].op = "rl2_free"
                /\ pData' = FreshBlock(BlockBytes(DatasetAt(ds, Val(readCall').nDs))
                                         \div Len(DatasetAt(ds, Val(readCall').nDs).bands))
                /\ blockCache' = blockCache) ]_vars

\* A wrong size was fetched for a dataset of several bands, one of them
\* cached already.
C8_Witness ==
    /\ FetchedWrongSize
    /\ readRet = "CE_Failure"
    /\ Len(ReadTarget.bands) > 1
    /\ blockCache # {}

\* The last IReadBlock succeeded on a 1-bit monochrome coverage opened with
\* 1BIT_AS_8BIT off.
ReadUnpromotedMono ==
    /\ readRet = "CE_None"
    /\ store.nSampleType = "RL2_SAMPLE_1_BIT"
    /\ store.nPixelType = "RL2_PIXEL_MONOCHROME"
    /\ ~Val(openCall).opt.b1BitAs8Bit

\* C9 as stated: for a 1-bit monochrome coverage opened with promotion to
\* 8 bits off, every byte IReadBlock writes to the caller's block is 0 or 1,
\* on the base dataset and on every overview dataset, whatever the bytes
\* fetched.
C9_AllBytes01 ==
    ReadUnpromotedMono => \A i \in 1..Len(pData) : pData[i] \in {0, 1}

\* C9 amended: for such a coverage every byte IReadBlock writes to the block
\* of an overview dataset is 0 or 1 (1 for a fetched byte above 127)
\* whatever the bytes fetched, and on the base dataset the bytes fetched
\* are written unchanged.
C9_Overviews01BaseUnchanged ==
    ReadUnpromotedMono =>
        LET pBuffer == Val(readCall).fetch.pBuffer
        IN /\ Len(pData) = Len(pBuffer)
           /\ IF Val(readCall).nDs > 0
              THEN \A i \in 1..Len(pData) :
                      /\ pData[i] \in {0, 1}
                      /\ (pData[i] = 1) = (pBuffer[i] > 127)
              ELSE pData = pBuffer

\* An overview block for which bytes other than 0 and 1 were fetched.
C9_Witness ==
    /\ ReadUnpromotedMono
    /\ Val(readCall).nDs > 0
    /\ \E i \in 1..Len(pData) : Val(readCall).fetch.pBuffer[i] = 128 /\ pData[i] = 1
    /\ \E i \in 1..Len(pData) : Val(readCall).fetch.pBuffer[i] = 127 /\ pData[i] = 0

FetchPrimitives == {"rl2_get_section_raw_raster_data", "rl2_get_raw_raster_data"}

\* C10: every IReadBlock calls one fetch primitive, once and first: the
\* section-scoped one if the dataset has a section id >= 0 and either the
\* coverage has mixed resolutions or the dataset has no parent, the
\* whole-coverage one otherwise; when the primitive fails IReadBlock returns
\* CE_Failure and the caller's block is untouched.
C10_OneFetch ==
    readRet # "none" =>
        LET bSection == /\ ReadTarget.m_nSectionId >= 0
                        /\ (store.nMixedResolutions \/ Val(readCall).nDs = 0)
        IN /\ Len(SelectSeq(readLog, LAMBDA e : e.op \in FetchPrimitives)) = 1
           /\ readLog[1].op = IF bSection THEN "rl2_get_section_raw_raster_data"
                                          ELSE "rl2_get_raw_raster_data"
           /\ (Val(readCall).fetch.ret # "RL2_OK" =>
                 /\ readRet = "CE_Failure"
                 /\ pData = FreshBlock(BlockBytes(ReadTarget) \div Len(ReadTarget.bands))
                 /\ Len(readLog) = 1)

\* An overview of a section of a coverage without mixed resolutions, read
\* through the whole-coverage primitive, which failed.
C10_Witness ==
    /\ readRet = "CE_Failure"
    /\ Val(readCall).nDs > 0
    /\ ReadTarget.m_nSectionId >= 0
    /\ ~store.nMixedResolutions
    /\ readLog = << Event("rl2_get_raw_raster_data", 0) >>
    /\ Val(readCall).fetch.ret = "RL2_ERROR"

----------------------------------------------------------------------------
(* Properties of the write path, under SpecCopy                            *)

\* The positions in the log of the calls of op (answering ret).
CallsOf(op) == { i \in 1..Len(cc.log) : cc.log[i].op = op }

CallsAnswering(op, ret) == { i \in 1..Len(cc.log) : cc.log[i] = Call(op, ret) }

\* Every call of op is after a call in the set of positions S.
AllAfter(op, S) == \A i \in CallsOf(op) : \E j \in S : j < i

\* C1: in every run of CreateCopy the transaction is started before the
\* registry table is checked or created, a coverage is loaded or created and
\* loaded before tiles are loaded, CommitTransaction is called only after
\* rl2_load_raw_tiles_into_dbms answered RL2_OK, and when CreateCopy returns
\* NULL after StartTransaction, CommitTransaction has not been called.
C1_TransactionOrder ==
    /\ AllAfter("SELECT sqlite_master", CallsOf("StartTransaction"))
    /\ AllAfter("CreateRasterCoveragesTable", CallsOf("StartTransaction"))
    /\ AllAfter("rl2_load_raw_tiles_into_dbms",
                CallsAnswering("rl2_create_coverage_from_dbms", "cvg"))
    /\ AllAfter("CommitTransaction", CallsAnswering("rl2_load_raw_tiles_into_dbms", "RL2_OK"))
    /\ (cc.ret = "NULL" /\ CallsOf("StartTransaction") # {} => CallsOf("CommitTransaction") = {})

\* A run that created the registry table and the coverage, loaded the tiles
\* and committed.
C1_Witness ==
    /\ cc.ret = "poDS"
    /\ CallsOf("CreateRasterCoveragesTable") # {}
    /\ CallsOf("rl2_create_dbms_coverage") # {}
    /\ CallsOf("CommitTransaction") # {}

\* The source and the options of the run fail one of the tests the claim
\* names.
FailsPreflight ==
    LET src == Val(copyIn).src
        opt == Val(copyIn).opt
    IN /\ ~IsNull(copyIn)
       /\ \/ src.nBands = 0
          \/ src.nBands > 255
          \/ (src.gtRet = "CE_None" /\ ~(src.gt.gt2 = 0 /\ src.gt.gt4 = 0))
          \/ (~IsNull(opt.APPEND_SUBDATASET) /\ IsNull(opt.COVERAGE))

\* C2: CreateCopy of a source of 0 or more than 255 bands, or whose
\* geotransform has a rotation or shear term other than zero, or with
\* APPEND_SUBDATASET given and COVERAGE absent, returns NULL in its first
\* step: it makes no call at all, so the target is neither opened nor
\* created and no transaction is started.
C2_PreflightFailsFirst ==
    FailsPreflight =>
        /\ cc.log = <<>>
        /\ cc.poDS = "none"
        /\ cc.pc \in {"preflight", "done"}
        /\ (cc.pc = "done" => cc.ret = "NULL")

\* CreateCopy has returned for a source that fails the rotation test only.
C2_Witness ==
    /\ FailsPreflight
    /\ cc.pc = "done"
    /\ cc.ret = "NULL"
    /\ Val(copyIn).src.nBands = 3
    /\ Val(copyIn).src.gt.gt4 # 0
    /\ ~IsNull(Val(copyIn).opt.COVERAGE)

----------------------------------------------------------------------------
(* Properties of the sibling fill of the block reader, under SpecRead      *)

\* C11: an IReadBlock that fetched a buffer of the right size succeeds,
\* whichever siblings get no cache slot; when it succeeds on a dataset of
\* several bands, for every other band at the same block coordinates: a block
\* cached before the call is the same after it; a block not cached and whose
\* slot could not be acquired is still not cached; a block not cached and
\* whose slot was acquired is cached once, holding the samples of that band
\* taken out of the pixel-interleaved buffer the call fetched.  The cached
\* blocks at other coordinates, of other datasets and of the band read are
\* as they were.
C11_SiblingFill ==
    [][ (openRet = "true" /\ readRet' # "none") =>
          LET c       == Val(readCall')
              poGDS   == DatasetAt(ds, c.nDs)
              nBands  == Len(poGDS.bands)
              band    == poGDS.bands[c.nBand]
              nDTSize == GDALGetDataTypeSizeBytes(band.eDataType)
              nWords  == band.nBlockXSize * band.nBlockYSize
              At(cache, iBand) ==
                  { e \in cache : /\ e.nDs = c.nDs /\ e.iBand = iBand
                                  /\ e.x = c.nBlockXOff /\ e.y = c.nBlockYOff }
              Siblings == (1..nBands) \ {c.nBand}
              Elsewhere(cache) ==
                  { e \in cache : \A iBand \in Siblings : e \notin At(cache, iBand) }
          IN /\ (c.fetch.ret = "RL2_OK" /\ Len(c.fetch.pBuffer) = BlockBytes(poGDS)
                   => readRet' = "CE_None")
             /\ (readRet' = "CE_None" /\ nBands > 1 =>
                   /\ \A iBand \in Siblings :
                        IF At(blockCache, iBand) # {}
                        THEN At(blockCache', iBand) = At(blockCache, iBand)
                        ELSE IF iBand \in c.noSlot
                        THEN At(blockCache', iBand) = {}
                        ELSE /\ Cardinality(At(blockCache', iBand)) = 1
                             /\ \A e \in At(blockCache', iBand) :
                                  /\ Len(e.data) = nWords * nDTSize
                                  /\ \A w \in 0..(nWords - 1), b \in 1..nDTSize :
                                       e.data[w * nDTSize + b] =
                                         c.fetch.pBuffer[(w * nBands + iBand - 1) * nDTSize + b]
                   /\ Elsewhere(blockCache') = Elsewhere(blockCache)) ]_vars

\* A read of one band of a three-band dataset that succeeded with one sibling
\* cached before with other samples, and the slot of the other one refused.
C11_Witness ==
    /\ readRet = "CE_None"
    /\ Len(ReadTarget.bands) = 3
    /\ \E iBand \in 1..3 :
         /\ iBand # Val(readCall).nBand
         /\ iBand \in Val(readCall).noSlot
         /\ ~IsCached(blockCache, Val(readCall).nDs, iBand,
                      Val(readCall).nBlockXOff, Val(readCall).nBlockYOff)
    /\ \E e \in blockCache :
         /\ e.nDs = Val(readCall).nDs /\ e.iBand # Val(readCall).nBand
         /\ e.x = Val(readCall).nBlockXOff /\ e.y = Val(readCall).nBlockYOff
         /\ e.data # GDALCopyWords(Val(readCall).fetch.pBuffer, e.iBand,
                                   GDALGetDataTypeSizeBytes(ReadTarget.bands[1].eDataType),
                                   3, Len(e.data))

----------------------------------------------------------------------------
(* Properties of the tile callback and the loader, under SpecLoad          *)

\* The calls of RasterLite2Callback so far.
TileCalls == Val(ld).calls

\* The calls in which the progress function answered that the user cancels.
CancelledCalls ==
    { i \in 1..Len(TileCalls) :
        ~IsNull(TileCalls[i].progress) /\ ~Val(TileCalls[i].progress).bContinue }

\* C12: when the progress function reports a cancellation for a tile,
\* RasterLite2Callback returns FALSE for that tile, which is the last one the
\* loader asks for; the loader returns RL2_ERROR, CreateCopy returns NULL when
\* it returns, and CommitTransaction is never called.
C12_CancelAborts ==
    \A i \in CancelledCalls :
        /\ ~TileCalls[i].ret
        /\ i = Len(TileCalls)
        /\ Val(ld).ret = "RL2_ERROR"
        /\ cc.pc \in {"load", "done"}
        /\ (cc.pc = "done" => cc.ret = "NULL" /\ cc.poDS = "deleted")
        /\ CallsOf("CommitTransaction") = {}

\* CreateCopy has returned after a cancellation at a tile of the second row.
C12_Witness ==
    /\ cc.pc = "done"
    /\ cc.ret = "NULL"
    /\ \E i \in CancelledCalls : i > TileColumns(Val(ld).in) /\ TileColumns(Val(ld).in) > 1

\* The source is not a whole number of tiles wide, or high.
PartialTiles ==
    \/ Val(ld).in.poSrcDS.nRasterXSize % Val(ld).in.nTileWidth # 0
    \/ Val(ld).in.poSrcDS.nRasterYSize % Val(ld).in.nTileHeight # 0

\* The i-th tile of the grid (from 1) extends past the right or the bottom
\* edge of the source.
TilePastEdge(i) ==
    LET in  == Val(ld).in
        col == (i - 1) % TileColumns(in)
        row == (i - 1) \div TileColumns(in)
    IN \/ (col + 1) * in.nTileWidth > in.poSrcDS.nRasterXSize
       \/ (row + 1) * in.nTileHeight > in.poSrcDS.nRasterYSize

\* C13: for a source whose width or height is not a multiple of the tile
\* size, the window every call of RasterLite2Callback reads lies inside the
\* source and has a width and a height above 0, no call clears memory past
\* the end of the tile buffer, and after the call for a tile that extends
\* past an edge of the source every byte of the tile buffer outside the
\* window read is 0.
C13_WindowInsideZeroPadded ==
    (~IsNull(ld) /\ PartialTiles) =>
        /\ \A i \in 1..Len(TileCalls) :
             LET c == TileCalls[i]
             IN /\ c.nXOff >= 0 /\ c.nYOff >= 0
                /\ c.nReqXSize > 0 /\ c.nReqYSize > 0
                /\ c.nXOff + c.nReqXSize <= Val(ld).in.poSrcDS.nRasterXSize
                /\ c.nYOff + c.nReqYSize <= Val(ld).in.poSrcDS.nRasterYSize
                /\ ~c.bOverrun
        /\ (Len(TileCalls) > 0 /\ TilePastEdge(Len(TileCalls))) =>
             LET c   == TileCalls[Len(TileCalls)]
                 in  == Val(ld).in
                 nPixelSpacing == in.poSrcDS.nBands * GDALGetDataTypeSizeBytes(in.poSrcDS.eDT)
                 buf == Val(ld).pabyBuffer
             IN \A i \in 1..Len(buf) :
                  LET x == ((i - 1) \div nPixelSpacing) % in.nTileWidth
                      y == ((i - 1) \div nPixelSpacing) \div in.nTileWidth
                  IN (c.eErr # "CE_None" \/ x >= c.nReqXSize \/ y >= c.nReqYSize) => buf[i] = 0

\* The same for the sources whose geotransform has a negative gt5 (north-up).
NorthUpWindowInsideZeroPadded ==
    (~IsNull(ld) /\ Val(ld).in.adfGeoTransform.gt5 < 0) => C13_WindowInsideZeroPadded

\* The calls of RasterLite2Callback that reported a progress of 1.0.
CompleteReports ==
    { i \in 1..Len(TileCalls) :
        /\ ~IsNull(TileCalls[i].progress)
        /\ Val(TileCalls[i].progress).n = Val(TileCalls[i].progress).d }

\* C14: when the loader has returned RL2_OK to a CreateCopy that has a
\* progress function, whatever the size of the source and of the tiles, the
\* progress function was called with 1.0 once, by the call of
\* RasterLite2Callback for the last tile.
C14_CompleteOnce ==
    (~IsNull(ld) /\ Val(ld).ret = "RL2_OK" /\ Val(ld).in.pfnProgress) =>
        CompleteReports = {Len(TileCalls)}

\* The same for the sources that are one tile wide at most.
OneColumnCompleteOnce ==
    (~IsNull(ld) /\ TileColumns(Val(ld).in) = 1) => C14_CompleteOnce

----------------------------------------------------------------------------
(* Properties of the end of CreateCopy, under SpecCopy                     *)

\* C15: when CreateCopy returns a dataset, the Open of the target coverage
\* on the new data source answered TRUE: a CreateCopy whose reopen fails
\* returns NULL.
C15_ReturnsReopened ==
    (cc.pc = "done" /\ cc.ret # "NULL") =>
        /\ CallsAnswering("Open RASTERLITE2:", "TRUE") # {}
        /\ CallsAnswering("Open RASTERLITE2:", "FALSE") = {}

----------------------------------------------------------------------------
(* Properties of CreateDefaultNoData, under SpecNoData                     *)

\* The sample types CreateDefaultNoData has a case for, per pixel type.
SwitchSampleTypes(nPixelType) ==
    CASE nPixelType = "RL2_PIXEL_MONOCHROME" -> {"RL2_SAMPLE_1_BIT"}
      [] nPixelType = "RL2_PIXEL_GRAYSCALE" ->
           {"RL2_SAMPLE_1_BIT", "RL2_SAMPLE_2_BIT", "RL2_SAMPLE_4_BIT", "RL2_SAMPLE_UINT8",
            "RL2_SAMPLE_UINT16"}
      [] nPixelType = "RL2_PIXEL_RGB" -> {"RL2_SAMPLE_UINT8", "RL2_SAMPLE_UINT16"}
      [] nPixelType = "RL2_PIXEL_DATAGRID" ->
           {"RL2_SAMPLE_INT8", "RL2_SAMPLE_UINT8", "RL2_SAMPLE_INT16", "RL2_SAMPLE_UINT16",
            "RL2_SAMPLE_INT32", "RL2_SAMPLE_UINT32", "RL2_SAMPLE_FLOAT", "RL2_SAMPLE_DOUBLE"}
      [] OTHER -> {}

\* The largest value of an unsigned sample type.
BrightestSample(nSampleType) ==
    CASE nSampleType = "RL2_SAMPLE_1_BIT" -> 1
      [] nSampleType = "RL2_SAMPLE_2_BIT" -> 3
      [] nSampleType = "RL2_SAMPLE_4_BIT" -> 15
      [] nSampleType = "RL2_SAMPLE_UINT8" -> 255
      [] nSampleType = "RL2_SAMPLE_UINT16" -> 65535

\* C16: the pixel CreateDefaultNoData returns has, for every sample type the
\* pixel type has a case for: the sample 0 for a monochrome pixel, the largest
\* value of the sample type for a grayscale pixel, the largest value of the
\* sample type in each of the three bands for an RGB pixel, and the sample 0
\* for a data-grid pixel.
C16_DefaultNoData ==
    (~IsNull(nd) /\ ~IsNull(Val(nd).pNoData)) =>
        LET in  == Val(nd).in
            pxl == Val(Val(nd).pNoData)
            nBandsOf == IF in.nPixelType = "RL2_PIXEL_RGB" THEN 3 ELSE 1
        IN (in.nSampleType \in SwitchSampleTypes(in.nPixelType) /\ in.nBandCount = nBandsOf) =>
             \A nb \in 0..(nBandsOf - 1) :
                pxl.samples[nb] =
                  IF in.nPixelType \in {"RL2_PIXEL_MONOCHROME", "RL2_PIXEL_DATAGRID"}
                  THEN 0 ELSE BrightestSample(in.nSampleType)

\* The same, but for the 16-bit grayscale and RGB pixels.
DefaultNoDataBut16Bit ==
    (~IsNull(nd) /\ ~(/\ Val(nd).in.nSampleType = "RL2_SAMPLE_UINT16"
                      /\ Val(nd).in.nPixelType \in {"RL2_PIXEL_GRAYSCALE", "RL2_PIXEL_RGB"}))
        => C16_DefaultNoData

----------------------------------------------------------------------------
(* Properties of the band queries of an opened coverage, under SpecQuery   *)

\* The coverage has a no-data pixel whose type can be read and whose sample
\* type, pixel type and band count are those of the coverage.
NoDataMatches ==
    /\ ~IsNull(store.noData)
    /\ Val(store.noData).ret = "RL2_OK"
    /\ Val(store.noData).nSampleType = store.nSampleType
    /\ Val(store.noData).nPixelType = store.nPixelType
    /\ Val(store.noData).nBands = store.nBands

\* C17: on an opened coverage, when the no-data pixel matches the coverage in
\* sample type, pixel type and band count: with one band GetNoDataValue of
\* the band answers the sample of the pixel and the dataset has no
\* NODATA_VALUES; with several bands NODATA_VALUES holds the sample of each
\* band and no band has a no-data value of its own.  When the pixel does not
\* match, or there is none, the dataset has no NODATA_VALUES and no band has a
\* no-data value of its own.  GetNoDataValue of a band without one answers
\* what the generic mechanism answers.  The no-data pixel does not make an
\* open fail.
C17_NoDataHonoured ==
    /\ openRet = "true" =>
         LET own == NoDataMatches
             p   == Val(store.noData)
         IN /\ Len(ds.bands) = store.nBands
            /\ IF own /\ store.nBands = 1
               THEN /\ ds.metadata.NODATA_VALUES = Null
                    /\ ds.bands[1].m_bHasNoData
               ELSE /\ \A i \in 1..Len(ds.bands) : ~ds.bands[i].m_bHasNoData
                    /\ IF own
                       THEN /\ ~IsNull(ds.metadata.NODATA_VALUES)
                            /\ Len(Val(ds.metadata.NODATA_VALUES)) = store.nBands
                            /\ \A i \in 1..store.nBands :
                                 Val(ds.metadata.NODATA_VALUES)[i] = p.samples[i]
                       ELSE ds.metadata.NODATA_VALUES = Null
            /\ ~IsNull(qry) =>
                 Val(qry).noData =
                   IF own /\ store.nBands = 1
                   THEN [bSuccess |-> TRUE, dfNoData |-> p.samples[1]]
                   ELSE [bSuccess |-> Val(qry).pam.bSuccess, dfNoData |-> Val(qry).pam.dfNoData]
    /\ (openRet = "false" /\ ~IsNull(store.noData)) =>
         \A ubW \in UBCasts, ubH \in UBCasts :
            ~OpenRasterSubDataset(NewDataSource, [store EXCEPT !.noData = Null],
                                  Val(openCall).papszTokens, Val(openCall).opt,
                                  [w |-> ubW, h |-> ubH]).ret

\* GetNoDataValue was called on the band of an opened one-band coverage whose
\* no-data pixel has the sample type and the pixel type of the coverage and
\* another band count, with a no-data value in the generic mechanism.
C17_Witness ==
    /\ openRet = "true"
    /\ ~IsNull(store.noData)
    /\ Val(store.noData).ret = "RL2_OK"
    /\ Val(store.noData).nSampleType = store.nSampleType
    /\ Val(store.noData).nPixelType = store.nPixelType
    /\ Val(store.noData).nBands = 3
    /\ store.nBands = 1
    /\ ~IsNull(qry)
    /\ Val(qry).nDs = 0
    /\ Val(qry).pam.bSuccess
    /\ Val(qry).noData.dfNoData = 7

\* C18: GetOverviewCount and GetOverview of a band of a dataset whose list of
\* overview datasets is not empty answer from the list alone: the count is
\* the size of the list, an index below 0 or not below the size yields NULL
\* whatever the generic mechanism has, and another index yields the band of
\* the same number of that overview dataset.  When the list is empty both
\* answer what the generic mechanism answers.
C18_OverviewSource ==
    (~IsNull(qry) /\ openRet = "true") =>
        LET c     == Val(qry)
            nOvr  == Len(DatasetAt(ds, c.nDs).m_apoOverviewDS)
        IN IF nOvr > 0
           THEN /\ c.nOverviews = nOvr
                /\ c.poOverview =
                     IF c.nIdx < 0 \/ c.nIdx >= nOvr THEN Null
                     ELSE Some([from |-> "m_apoOverviewDS", nIdx |-> c.nIdx, nBand |-> c.nBand])
           ELSE /\ c.nOverviews = c.pam.nOverviews
                /\ c.poOverview =
                     IF c.nIdx >= 0 /\ c.nIdx < c.pam.nOverviews
                     THEN Some([from |-> "pam", nIdx |-> c.nIdx, nBand |-> 0])
                     ELSE Null

\* GetOverview was asked for an index the list of one overview dataset does
\* not have and the generic mechanism has.
C18_Witness ==
    /\ ~IsNull(qry)
    /\ Val(qry).nDs = 0
    /\ Len(ds.m_apoOverviewDS) = 1
    /\ Val(qry).nIdx = 1
    /\ Val(qry).pam.nOverviews = 2
    /\ IsNull(Val(qry).poOverview)

\* C20: whenever OpenRasterSubDataset returns false (an identifier without
\* the scheme or with fewer than three fields, a coverage that does not load,
\* a section or coverage geometry that fails or is out of range, a band count
\* of 0, an unknown sample type, an invalid tile size), the data source has
\* no band and no overview dataset.
C20_NoPartialDataset ==
    openRet = "false" => ds.bands = <<>> /\ ds.m_apoOverviewDS = <<>>

\* The last failure of the open: the coverage loaded, its geometry resolved,
\* its band count and sample type are valid, and its tile size is not.
C20_Witness ==
    /\ openRet = "false"
    /\ ds.m_pRL2Coverage # "NULL"
    /\ ds.nRasterXSize > 0
    /\ store.nBands > 0
    /\ SampleTypeInfo(store.nSampleType).ok
    /\ ds.bands = <<>>

----------------------------------------------------------------------------
(* Properties of the store probe, under SpecProbe                         *)

\* The rows of the registry that name a coverage that loads.
LoadableRows ==
    { i \in 1..Len(store.registryRows) :
        /\ ~IsNull(store.registryRows[i].coverage_name)
        /\ Val(store.registryRows[i].coverage_name) \in store.coverages }

\* Both queries of OpenRaster gave rows.
RegistryRead ==
    /\ store.markerRc = "SQLITE_OK" /\ store.markerRows = 1
    /\ store.registryRc = "SQLITE_OK" /\ Len(store.registryRows) > 0

\* The result of OpenRasterSubDataset on the identifier generated for the
\* coverage name, on a data source that lists that one coverage.
ResolvedIdentifier(name) ==
    OpenRasterSubDataset(
        [NewDataSource EXCEPT !.m_aosSubDatasets = <<[key |-> "one"], [key |-> "one"]>>],
        store, ConnectionTokens(SubDatasetName(FileName, name)), Val(openCall).opt,
        [w |-> 0, h |-> 0])

C19_WitnessMany ==
    /\ openRet = "true"
    /\ Cardinality(LoadableRows) = 2
    /\ ds.m_pRL2Coverage = "NULL"

----------------------------------------------------------------------------
(* Properties of the identifier test of the open, under Spec              *)

\* The identifiers without the scheme or with fewer than three fields.
Malformed == { t \in ConnectionIds : t[1] # "RASTERLITE2" \/ Len(t) < 3 }

\* C21: OpenRasterSubDataset returns false on an identifier that does not
\* start with RASTERLITE2: or has fewer than three fields, and leaves the data
\* source as it was: the sub-dataset list, the coverage name, the section id
\* and the coverage handle keep their values.  This holds for the call made at
\* open and for a call on the data source any open has left.
C21_MalformedLeavesState ==
    /\ openRet # "none" /\ Val(openCall).papszTokens \in Malformed =>
         openRet = "false" /\ ds = NewDataSource
    /\ \A t \in Malformed, opt \in OpenOptions :
         LET r == OpenRasterSubDataset(ds, store, t, opt, [w |-> 0, h |-> 0])
         IN /\ ~r.ret
            /\ r.ds.m_aosSubDatasets = ds.m_aosSubDatasets
            /\ r.ds.m_osCoverageName = ds.m_osCoverageName
            /\ r.ds.m_nSectionId = ds.m_nSectionId
            /\ r.ds.m_pRL2Coverage = ds.m_pRL2Coverage
            /\ r.ds = ds

\* An open with an identifier of another scheme on a store whose coverage
\* would load.
C21_Witness ==
    /\ openRet = "false"
    /\ Val(openCall).papszTokens = <<"SQLITE", FileName, "cov">>
    /\ "cov" \in store.coverages
    /\ ds.m_pRL2Coverage = "NULL"

----------------------------------------------------------------------------
(* Properties of the sub-dataset list, under SpecMeta                     *)

\* The number of pairs of the sub-dataset list.
Candidates == Len(ds.m_aosSubDatasets) \div 2

\* C22: the sub-dataset list is a sequence of pairs SUBDATASET_n_NAME,
\* SUBDATASET_n_DESC with n = 1, 2, ... in the order of insertion, whether
\* OpenRaster listed coverages or OpenRasterSubDataset listed sections, and
\* GetMetadata("SUBDATASETS") hands the list out exactly when it has more
\* than one pair; with no pair or one pair, and for any other domain, it does
\* not.
C22_PairsAndExposure ==
    /\ Len(ds.m_aosSubDatasets) = 2 * Candidates
    /\ \A n \in 1..Candidates :
         /\ ds.m_aosSubDatasets[2 * n - 1].key = <<"SUBDATASET", n, "NAME">>
         /\ ds.m_aosSubDatasets[2 * n].key = <<"SUBDATASET", n, "DESC">>
    /\ ~IsNull(qry) =>
         LET md == Val(qry).md
             bAsked == Val(qry).pszDomain \in {Some("SUBDATASETS"), Some("subdatasets")}
         IN /\ (md.from = "m_aosSubDatasets") = (bAsked /\ Candidates > 1)
            /\ md.from = "m_aosSubDatasets" => md.papszMD = ds.m_aosSubDatasets
            /\ Candidates <= 1 => md.from # "m_aosSubDatasets"

\* GetMetadata("SUBDATASETS") on a data source whose list has one pair: the
\* coverage has two sections and one of them has no name.
C22_Witness ==
    /\ ~IsNull(qry)
    /\ Val(qry).pszDomain = Some("SUBDATASETS")
    /\ Candidates = 1
    /\ Val(qry).md.from = "GDALPamDataset"

\* GetMetadata("SUBDATASETS") on a data source that lists two coverages.
C22_WitnessExposed ==
    /\ ~IsNull(qry)
    /\ Val(qry).md.from = "m_aosSubDatasets"
    /\ Candidates = 2
    /\ store.registryRows # StoreBase.registryRows

----------------------------------------------------------------------------
(* Properties of the pixel format of CreateCopy, under SpecCopy           *)

\* CreateCopy has derived the pixel format of its source and options.
FormatDerived == ~IsNull(cc.fmt)

\* The source has bands of Byte or UInt16.
ByteOrUInt16 == Val(copyIn).src.eDT \in {"GDT_Byte", "GDT_UInt16"}

\* The source has three bands of Byte or UInt16 interpreted as red, green and
\* blue in that order.
RedGreenBlue == Val(copyIn).src.nBands = 3 /\ ByteOrUInt16 /\ Val(copyIn).src.bRGBInterp

\* C23: the pixel type of CreateCopy is the one the option PIXEL_TYPE names
\* (GRAYSCALE, RGB, MULTIBAND or DATAGRID) when the option is given.  Without
\* the option it is RGB for a source of three Byte or UInt16 bands interpreted
\* red, green, blue, MULTIBAND for any other source of more than one Byte or
\* UInt16 band, and DATAGRID for a source of one band.
C23_PixelType ==
    FormatDerived =>
      LET pt == Val(copyIn).opt.PIXEL_TYPE
          nPixelType == Val(cc.fmt).nPixelType
      IN /\ pt = Some("GRAYSCALE") => nPixelType = "RL2_PIXEL_GRAYSCALE"
         /\ pt = Some("RGB") => nPixelType = "RL2_PIXEL_RGB"
         /\ pt = Some("MULTIBAND") => nPixelType = "RL2_PIXEL_MULTIBAND"
         /\ pt = Some("DATAGRID") => nPixelType = "RL2_PIXEL_DATAGRID"
         /\ IsNull(pt) /\ RedGreenBlue => nPixelType = "RL2_PIXEL_RGB"
         /\ IsNull(pt) /\ ~RedGreenBlue /\ Val(copyIn).src.nBands > 1 /\ ByteOrUInt16 =>
              nPixelType = "RL2_PIXEL_MULTIBAND"
         /\ IsNull(pt) /\ Val(copyIn).src.nBands = 1 => nPixelType = "RL2_PIXEL_DATAGRID"

\* A source of red, green and blue bands copied with PIXEL_TYPE=GRAYSCALE.
C23_Witness ==
    /\ FormatDerived
    /\ Val(copyIn).opt.PIXEL_TYPE = Some("GRAYSCALE")
    /\ RedGreenBlue
    /\ Val(cc.fmt).nPixelType = "RL2_PIXEL_GRAYSCALE"

\* What the code does with the inputs the statement of the pixel type leaves
\* out: a value of PIXEL_TYPE that is none of the four names, and a source of
\* several bands that are neither Byte nor UInt16, give GRAYSCALE.
PixelTypeOtherwiseGrayscale ==
    FormatDerived =>
      LET pt == Val(copyIn).opt.PIXEL_TYPE
      IN /\ pt = Some("PALETTE") => Val(cc.fmt).nPixelType = "RL2_PIXEL_GRAYSCALE"
         /\ IsNull(pt) /\ Val(copyIn).src.nBands > 1 /\ ~ByteOrUInt16 =>
              Val(cc.fmt).nPixelType = "RL2_PIXEL_GRAYSCALE"

\* The compression code of the value of COMPRESS alone.
ChosenCodec ==
    LET z == Val(copyIn).opt.COMPRESS
    IN CASE z = Some("DEFLATE") -> "RL2_COMPRESSION_DEFLATE"
         [] z = Some("LZMA") -> "RL2_COMPRESSION_LZMA"
         [] z = Some("PNG") -> "RL2_COMPRESSION_PNG"
         [] z = Some("CCITTFAX4") -> "RL2_COMPRESSION_CCITTFAX4"
         [] z = Some("JPEG") -> "RL2_COMPRESSION_JPEG"
         [] z = Some("WEBP") -> "RL2_COMPRESSION_LOSSY_WEBP"
         [] z = Some("CHARLS") -> "RL2_COMPRESSION_CHARLS"
         [] z = Some("JPEG2000") -> "RL2_COMPRESSION_LOSSY_JP2"
         [] OTHER -> "RL2_COMPRESSION_NONE"

\* The value of QUALITY when it is the text of an integer.
ExplicitQuality ==
    LET q == Val(copyIn).opt.QUALITY
    IN CASE q = Some("100") -> Some(100)
         [] q = Some("75") -> Some(75)
         [] q = Some("50") -> Some(50)
         [] q = Some("0") -> Some(0)
         [] OTHER -> Null

\* C24: without the option QUALITY the quality of CreateCopy is 75 for JPEG
\* and WEBP, 20 for JPEG2000 and 100 for any other compression and the code is
\* the one COMPRESS names.  With QUALITY=100, WEBP and JPEG2000 become their
\* lossless variants.  With any other integer quality, or any other codec,
\* the code is the one COMPRESS names, and the quality is the integer given.
C24_Quality ==
    FormatDerived =>
      LET z == Val(copyIn).opt.COMPRESS
          fmt == Val(cc.fmt)
      IN /\ IsNull(Val(copyIn).opt.QUALITY) =>
              /\ fmt.nCompression = ChosenCodec
              /\ fmt.nQuality = (IF z \in {Some("JPEG"), Some("WEBP")} THEN 75
                                 ELSE IF z = Some("JPEG2000") THEN 20 ELSE 100)
         /\ ~IsNull(ExplicitQuality) =>
              /\ fmt.nQuality = Val(ExplicitQuality)
              /\ fmt.nCompression =
                   (IF ExplicitQuality = Some(100) /\ z = Some("WEBP")
                    THEN "RL2_COMPRESSION_LOSSLESS_WEBP"
                    ELSE IF ExplicitQuality = Some(100) /\ z = Some("JPEG2000")
                    THEN "RL2_COMPRESSION_LOSSLESS_JP2"
                    ELSE ChosenCodec)

\* COMPRESS=JPEG2000 with QUALITY=100: the lossless codec.
C24_Witness ==
    /\ FormatDerived
    /\ Val(copyIn).opt.COMPRESS = Some("JPEG2000")
    /\ Val(copyIn).opt.QUALITY = Some("100")
    /\ Val(cc.fmt).nCompression = "RL2_COMPRESSION_LOSSLESS_JP2"
    /\ Val(cc.fmt).nQuality = 100

\* COMPRESS=JPEG without QUALITY: the quality 75.
C24_WitnessDefault ==
    /\ FormatDerived
    /\ Val(copyIn).opt.COMPRESS = Some("JPEG")
    /\ IsNull(Val(copyIn).opt.QUALITY)
    /\ Val(cc.fmt).nQuality = 75

----------------------------------------------------------------------------
(* Properties of the sample types, under Spec                             *)

\* Sample type, bit depth, data type, signedness.
TypeTable ==
    { <<"RL2_SAMPLE_1_BIT", 1, "GDT_Byte", FALSE>>,
      <<"RL2_SAMPLE_2_BIT", 2, "GDT_Byte", FALSE>>,
      <<"RL2_SAMPLE_4_BIT", 4, "GDT_Byte", FALSE>>,
      <<"RL2_SAMPLE_INT8", 8, "GDT_Byte", TRUE>>,
      <<"RL2_SAMPLE_UINT8", 8, "GDT_Byte", FALSE>>,
      <<"RL2_SAMPLE_INT16", 16, "GDT_Int16", TRUE>>,
      <<"RL2_SAMPLE_UINT16", 16, "GDT_UInt16", FALSE>>,
      <<"RL2_SAMPLE_INT32", 32, "GDT_Int32", TRUE>>,
      <<"RL2_SAMPLE_UINT32", 32, "GDT_UInt32", FALSE>>,
      <<"RL2_SAMPLE_FLOAT", 32, "GDT_Float32", TRUE>>,
      <<"RL2_SAMPLE_DOUBLE", 64, "GDT_Float64", TRUE>> }

\* The data types CreateCopy accepts.
CopiedTypes ==
    { "GDT_Byte", "GDT_UInt16", "GDT_Int16", "GDT_UInt32", "GDT_Int32", "GDT_Float32",
      "GDT_Float64" }

\* C25: the open maps each sample type to the bit depth, data type and
\* signedness of TypeTable, the bands of the opened coverage have that data
\* type, and the open of a coverage of any other sample type fails.  Every
\* data type CreateCopy accepts has a sample type that the table maps back to
\* the same data type, and every other data type has none.
C25_SampleTypes ==
    /\ \A row \in TypeTable :
         SampleTypeInfo(row[1]) = [ok |-> TRUE, nBits |-> row[2], eDT |-> row[3], bSigned |-> row[4]]
    /\ openRet = "true" =>
         \E row \in TypeTable :
            /\ row[1] = store.nSampleType
            /\ \A b \in 1..Len(ds.bands) :
                 /\ ds.bands[b].eDataType = row[3]
                 /\ (row[2] % 8 # 0) =
                      (ds.bands[b].NBITS = Some(row[2]) \/ ds.bands[b].SOURCE_NBITS = Some(row[2]))
                 /\ (ds.bands[b].PIXELTYPE = Some("SIGNEDBYTE")) = (row[2] = 8 /\ row[4])
    /\ (\A row \in TypeTable : row[1] # store.nSampleType) => openRet # "true"
    /\ \A eDT \in DataTypes :
         IF eDT \in CopiedTypes
         THEN /\ ~IsNull(CopySampleType(eDT))
              /\ SampleTypeInfo(Val(CopySampleType(eDT))).ok
              /\ SampleTypeInfo(Val(CopySampleType(eDT))).eDT = eDT
         ELSE IsNull(CopySampleType(eDT))

\* An opened coverage of signed 8-bit samples.
C25_Witness ==
    /\ openRet = "true"
    /\ store.nSampleType = "RL2_SAMPLE_INT8"
    /\ ds.bands[1].eDataType = "GDT_Byte"
    /\ ds.bands[1].PIXELTYPE = Some("SIGNEDBYTE")

\* An open that failed on a sample type outside the table.
C25_WitnessUnknown ==
    /\ openRet = "false"
    /\ store.nSampleType = "RL2_SAMPLE_OTHER"
    /\ ds.m_pRL2Coverage # "NULL"
    /\ ds.nRasterXSize > 0

----------------------------------------------------------------------------
(* The sample type of CreateCopy, under SpecCopy                          *)

\* CreateCopy derives a format exactly for the data types it accepts, with a
\* sample type that the open maps back to the data type of the source; for
\* any other data type it fails before it opens or creates the file.
CopyTypeRoundTrip ==
    /\ FormatDerived =>
         /\ Val(copyIn).src.eDT \in CopiedTypes
         /\ SampleTypeInfo(Val(cc.fmt).nSampleType).eDT = Val(copyIn).src.eDT
    /\ cc.pc # "preflight" /\ Val(copyIn).src.eDT \notin CopiedTypes =>
         cc.ret = "NULL" /\ cc.log = <<>>

----------------------------------------------------------------------------
(* Properties of the native handles, under SpecHandles                    *)

\* The native handles: the call that acquires one (NULL when it fails), the
\* call that releases it, the calls that use it.
HandleKinds ==
    { [acquire |-> "rl2_create_coverage_from_dbms", release |-> "rl2_destroy_coverage",
       uses |-> {"rl2_load_raw_tiles_into_dbms"}],
      [acquire |-> "CreateDefaultNoData", release |-> "rl2_destroy_pixel",
       uses |-> {"rl2_create_dbms_coverage"}],
      [acquire |-> "rl2_create_raster_statistics_from_dbms",
       release |-> "rl2_destroy_raster_statistics", uses |-> {"rl2_get_band_statistics"}],
      [acquire |-> "rl2_get_dbms_palette", release |-> "rl2_destroy_palette",
       uses |-> {"rl2_get_palette_colors"}] }

\* The handles of kind k that are held after the n first calls of log.
Held(log, k, n) ==
    Cardinality({ i \in 1..n : log[i].op = k.acquire /\ log[i].ret # "NULL" })
      - Cardinality({ i \in 1..n : log[i].op = k.release })

\* Along log a handle is released only when it is held and used only when it
\* is held, and no second one is acquired while one is held.
Disciplined(log) ==
    \A k \in HandleKinds : \A n \in 1..Len(log) :
       /\ log[n].op = k.release => Held(log, k, n - 1) = 1
       /\ log[n].op \in k.uses => Held(log, k, n - 1) = 1
       /\ log[n].op = k.acquire => Held(log, k, n - 1) = 0

\* At the end of log no handle is held.
AllReleased(log) == \A k \in HandleKinds : Held(log, k, Len(log)) = 0

\* C26: every native handle acquired is released exactly once on every path:
\* the coverage handle and the no-data pixel of CreateCopy, the coverage
\* handle of each row in OpenRaster, the statistics handle of
\* OpenRasterSubDataset and the palette handle of GetColorTable.  None is
\* released twice, none is used after its release, and when the function
\* returns none is held.
C26_HandlesReleasedOnce ==
    /\ Disciplined(cc.log)
    /\ cc.pc = "done" => AllReleased(cc.log) /\ cc.cvg # "live" /\ cc.pNoData # "live"
    /\ ~IsNull(qry) => Disciplined(Val(qry).calls) /\ AllReleased(Val(qry).calls)

\* CreateCopy returned NULL after the load of the tiles failed, with the
\* coverage handle released.
C26_Witness ==
    /\ cc.pc = "done"
    /\ cc.ret = "NULL"
    /\ \E i \in 1..Len(cc.log) :
          cc.log[i].op = "rl2_load_raw_tiles_into_dbms" /\ cc.log[i].ret = "RL2_ERROR"
    /\ \E i \in 1..Len(cc.log) : cc.log[i].op = "rl2_destroy_coverage"

\* OpenRaster probed two coverages that load.
C26_WitnessProbe ==
    /\ ~IsNull(qry)
    /\ Val(qry).site = "OpenRaster"
    /\ Cardinality({ i \in 1..Len(Val(qry).calls) : Val(qry).calls[i].op = "rl2_destroy_coverage" }) = 2

\* An open of a promoted 1-bit coverage that fetched the statistics and read
\* none of them.
C26_WitnessStatistics ==
    /\ ~IsNull(qry)
    /\ Val(qry).site = "OpenRasterSubDataset"
    /\ ds.m_bPromote1BitAs8Bit
    /\ Val(qry).calls = << Call("rl2_create_raster_statistics_from_dbms", "pStatistics"),
                           Call("rl2_destroy_raster_statistics", "-") >>

\* GetColorTable on a band whose palette has no readable colours.
C26_WitnessPalette ==
    /\ ~IsNull(qry)
    /\ Val(qry).site = "GetColorTable"
    /\ \E i \in 1..Len(Val(qry).calls) :
          Val(qry).calls[i].op = "rl2_get_palette_colors" /\ Val(qry).calls[i].ret = "RL2_ERROR"
    /\ \E i \in 1..Len(Val(qry).calls) : Val(qry).calls[i].op = "rl2_destroy_palette"

----------------------------------------------------------------------------
(* Properties of the block locks of the block reader, under SpecRead      *)

\* The calls that fetch from storage, take a block lock and drop one.
FetchOps == {"rl2_get_section_raw_raster_data", "rl2_get_raw_raster_data"}

LockOps == {"TryGetLockedBlockRef", "GetLockedBlockRef"}

\* The block locks held after the n first calls of IReadBlock.
LocksHeld(n) ==
    Cardinality({ i \in 1..n : readLog[i].op \in LockOps })
      - Cardinality({ i \in 1..n : readLog[i].op = "DropLock" })

\* C27: in IReadBlock the fetch from storage is the first call and the only
\* fetch, so no block lock is held across it; a lock taken on the block of a
\* sibling band by TryGetLockedBlockRef or GetLockedBlockRef is dropped
\* before any call on another band and before IReadBlock returns; at most one
\* block lock is held at any moment.
C27_LockDiscipline ==
    readRet # "none" =>
      /\ readLog[1].op \in FetchOps
      /\ \A n \in 2..Len(readLog) : readLog[n].op \notin FetchOps
      /\ \A n \in 0..Len(readLog) : LocksHeld(n) \in {0, 1}
      /\ LocksHeld(Len(readLog)) = 0
      /\ \A n \in 1..Len(readLog) :
           readLog[n].op \in LockOps =>
             \E m \in (n + 1)..Len(readLog) :
                /\ readLog[m] = Event("DropLock", readLog[n].iBand)
                /\ \A j \in n..m : readLog[j].iBand = readLog[n].iBand

\* A read that found the block of one sibling band in the cache and decoded
\* the block of another.
C27_Witness ==
    /\ readRet = "CE_None"
    /\ \E n \in 1..Len(readLog) : readLog[n].op = "TryGetLockedBlockRef"
    /\ \E n \in 1..Len(readLog) : readLog[n].op = "GetLockedBlockRef"
    /\ Cardinality({ n \in 1..Len(readLog) : readLog[n].op = "DropLock" }) = 2

----------------------------------------------------------------------------
(* Properties of the bands of the overview datasets, under Spec           *)

\* Band b of overview dataset o has the data type, block size, PIXELTYPE
\* item, colour interpretation and no-data flag and value of band b of the
\* base dataset, and no colour table.
OverviewBandCarriesBase(o, b) ==
    LET base == ds.bands[b]
        ovr  == ds.m_apoOverviewDS[o].bands[b]
    IN /\ ovr.eDataType = base.eDataType
       /\ ovr.nBlockXSize = base.nBlockXSize
       /\ ovr.nBlockYSize = base.nBlockYSize
       /\ ovr.PIXELTYPE = base.PIXELTYPE
       /\ ovr.m_eColorInterp = base.m_eColorInterp
       /\ ovr.m_bHasNoData = base.m_bHasNoData
       /\ ovr.m_dfNoDataValue = base.m_dfNoDataValue
       /\ IsNull(ovr.m_poCT)

\* C28: every overview dataset has as many bands as the base dataset, and
\* each of its bands carries what the base band of the same index has: data
\* type, block size, the bit-depth item the base band advertises (NBITS or
\* SOURCE_NBITS), PIXELTYPE, colour interpretation, no-data flag and value;
\* it has no colour table.
C28_OverviewBands ==
    openRet = "true" =>
      \A o \in 1..Len(ds.m_apoOverviewDS) :
         /\ Len(ds.m_apoOverviewDS[o].bands) = Len(ds.bands)
         /\ \A b \in 1..Len(ds.bands) :
              /\ OverviewBandCarriesBase(o, b)
              /\ ds.m_apoOverviewDS[o].bands[b].NBITS = ds.bands[b].NBITS
              /\ ds.m_apoOverviewDS[o].bands[b].SOURCE_NBITS = ds.bands[b].SOURCE_NBITS

\* What the code does: everything but SOURCE_NBITS is carried over, and an
\* overview band never has SOURCE_NBITS.
OverviewBandsButSourceNBits ==
    openRet = "true" =>
      \A o \in 1..Len(ds.m_apoOverviewDS) :
         /\ Len(ds.m_apoOverviewDS[o].bands) = Len(ds.bands)
         /\ \A b \in 1..Len(ds.bands) :
              /\ OverviewBandCarriesBase(o, b)
              /\ ds.m_apoOverviewDS[o].bands[b].NBITS = ds.bands[b].NBITS
              /\ IsNull(ds.m_apoOverviewDS[o].bands[b].SOURCE_NBITS)

\* An opened coverage with an overview whose base band advertises
\* SOURCE_NBITS.
PromotedWithOverview ==
    /\ openRet = "true"
    /\ Len(ds.m_apoOverviewDS) > 0
    /\ ds.bands[1].SOURCE_NBITS = Some(1)

----------------------------------------------------------------------------
(* Properties of the statistics of the bands, under Spec                  *)

\* The identifier of the open has a section id.
NamesSection == Len(Val(openCall).papszTokens) >= 4

\* The open selected the only section of the coverage by itself.
AutoSelected ==
    /\ ~NamesSection
    /\ store.sectionsRc = "SQLITE_OK"
    /\ Len(store.sections) = 1
    /\ ~IsNull(store.sections[1].section_id) /\ ~IsNull(store.sections[1].section_name)
    /\ ds.m_nSectionId = Val(store.sections[1].section_id)

\* A band of the opened data source has the STATISTICS_* items.
SomeStatistics == \E b \in 1..Len(ds.bands) : ds.bands[b].STATISTICS

\* C29: the STATISTICS_* items are set at open only when the dataset is the
\* whole coverage (no section id) or its section was selected by the open as
\* the only section of the coverage; they are never set when the identifier
\* names a section id, and never on a 1-bit band promoted to 8-bit.
C29_StatisticsEligibility ==
    openRet = "true" =>
      /\ SomeStatistics => (~NamesSection /\ ds.m_nSectionId < 0) \/ AutoSelected
      /\ NamesSection => ~SomeStatistics
      /\ (store.nSampleType = "RL2_SAMPLE_1_BIT" /\ ds.m_bPromote1BitAs8Bit) => ~SomeStatistics
      /\ ((~NamesSection /\ ds.m_nSectionId < 0) \/ AutoSelected)
           /\ store.statistics = "RL2_OK"
           /\ ~(store.nSampleType = "RL2_SAMPLE_1_BIT" /\ ds.m_bPromote1BitAs8Bit) =>
             \A b \in 1..Len(ds.bands) : ds.bands[b].STATISTICS

\* An open that selected the only section and set the statistics.
C29_Witness ==
    /\ openRet = "true"
    /\ AutoSelected
    /\ SomeStatistics

\* An open of a section named by the identifier: no statistics.
C29_WitnessNamed ==
    /\ openRet = "true"
    /\ NamesSection
    /\ store.statistics = "RL2_OK"
    /\ ~SomeStatistics

\* The section id the section-summary query and the per-section levels query
\* are given.
QueriedSectionId == SectionIdAsInt(ds.m_nSectionId)

\* The summary the section of the active id has in the store, if any.
ActiveSummary ==
    IF ds.m_nSectionId \in DOMAIN store.summary /\ store.summary[ds.m_nSectionId] # ""
    THEN Some(store.summary[ds.m_nSectionId]) ELSE Null

\* C30: for every section id OpenRasterSubDataset accepts (any non-negative
\* 64-bit value), the section id used in the section-summary query and in the
\* per-section pyramid-levels query equals the section id that resolved the
\* base resolution and extent and that IReadBlock uses: no query uses a value
\* truncated to 32 bits that differs from the active section id, so the
\* published SECTION_SUMMARY is the active section's.
C30_QueriesUseActiveSection ==
    (openRet = "true" /\ ds.m_nSectionId >= 0) =>
        /\ QueriedSectionId = ds.m_nSectionId
        /\ ds.metadata.SECTION_SUMMARY = ActiveSummary

\* What does hold: the queries use the active section id when it fits in an
\* int (less than 2^31, that is 32768 units of 2^16).
QueriesUseActiveSectionWithinInt ==
    (openRet = "true" /\ ds.m_nSectionId >= 0 /\ ds.m_nSectionId < 32768) =>
        /\ QueriedSectionId = ds.m_nSectionId
        /\ ds.metadata.SECTION_SUMMARY = ActiveSummary

\* The section of id 2^32 + 2^16 was opened next to the section of id 2^16,
\* whose summary was published in its place.
WideSectionOpened ==
    /\ openRet = "true"
    /\ ds.m_nSectionId = 65537
    /\ QueriedSectionId = 1
    /\ ActiveSummary = Some("summary of the wide section")
    /\ ds.metadata.SECTION_SUMMARY = Some("summary")

\* The same section, the only one of a coverage of mixed resolutions: selected
\* without being named, its summary and its pyramid levels were not found.
WideSectionAlone ==
    /\ openRet = "true"
    /\ Val(openCall).papszTokens = <<"RASTERLITE2", FileName, "cov">>
    /\ ds.m_nSectionId = 65537
    /\ store.nMixedResolutions
    /\ ds.metadata.SECTION_SUMMARY = Null
    /\ Len(store.sectionLevels[65537]) > 0
    /\ Len(ds.m_apoOverviewDS) = 0

====
